---------------------------- MODULE Spec2Model ----------------------------
(***************************************************************************)
(* Model of complexplanet (src/src/main.rs): the command line, the cube    *)
(* and rect renderers with their worker threads, the quantizer, and the    *)
(* noise-module graph built by create_generator.                           *)
(*                                                                         *)
(* Real numbers are fixed point: an elevation is an integer count of       *)
(* 1/ElevDen planetary elevation units.                                    *)
(***************************************************************************)
EXTENDS Integers, Sequences, FiniteSets, TLC

\* ------------------------------------------------------------------ bounds
\* Largest width / cube-face size given on the command line.
MaxWidth == 2
\* Largest seed magnitude given on the command line.
MaxSeed == 0
\* Fixed-point denominator of an elevation.
ElevDen == 8
\* How far (in 1/ElevDen units) a sampled elevation may leave [-1,1].
ElevOver == 2
\* Pixels in the buffer the quantizer is tried on.
QuantPixels == 2
\* Distinct query points of a generation session.
NoisePoints == 2
\* Classes of primitive sources that draw their noise independently.
NoiseClasses == 3
\* get_value calls on the root in one session.
MaxQueries == 3
\* Largest width / cube-face size of a tile whose pixel loops are followed.
MaxTile == 4

\* ------------------------------------------------------- program constants
I32Max == 2147483647

VARIABLES
    args,        \* the command line: [seed, width, type, format]
    mpc,         \* position of the controlling flow (main)
    seedV,       \* parsed seed
    widthV,      \* parsed width
    exitStatus,  \* -1 while running, else the process exit status
    stdout,      \* lines printed by main
    handles,     \* JoinHandles held by output_cube, in spawn order
    joined,      \* number of handles joined so far
    wpc,         \* position of each worker thread
    generator,   \* per thread: the graph its `generator` names ("none" before)
    nGraphs,     \* number of create_generator calls so far
    touched,     \* per graph: the threads that built or evaluated it
    dest_buffer, \* per thread: its elevation buffer
    files,       \* per filename: the file's record (Absent while not created)
    writers,     \* per filename: threads that created it
    \* write_output_to_file's conversion taken alone
    q_data,      \* the elevation buffer `data`
    q_format,    \* output_format
    q_img,       \* img_data
    q_pc,        \* "start", then "done" once img_data is filled
    \* one generation session: the graph of create_generator and its queries
    g_pc,        \* "unbuilt", "building", "built" once create_generator returned,
                 \* "querying" during a get_value on the root
    g_seed,      \* the seed given to create_generator
    g_field,     \* the noise the primitive sources draw from
    g_cache,     \* per Cache module: its stored point, value and source calls
    g_before,    \* g_cache as it was before the last get_value
    g_log,       \* per Cache module: its lookups during the last get_value
    g_stack,     \* the get_value calls in progress, the root's at the bottom
    g_results,   \* the get_value calls on the root so far: <<point, value>>
    g_built,     \* the subgroups create_generator has built so far
    g_vals,      \* per module built: the value it denotes at each point
    \* the pixel loops of one tile, followed pixel by pixel
    t_pc,        \* "start", "loop" once dest_buffer is allocated, then "done";
                 \* "panicked" after a panic on overflow or on allocation,
                 \* "out_of_range" after a panic on an index
    t_mode,      \* "cube" (output_cube_face) or "rect" (output_rect)
    t_plane,     \* the face of a cube tile ("none" for rect)
    t_seed,      \* seed
    t_width,     \* size (cube) or width (rect)
    t_height,    \* rows of the tile: size (cube) or width / 2 (rect)
    t_buf,       \* dest_buffer
    t_k,         \* iterations of the inner loop's body completed
    t_log,       \* per iteration: the grid coordinate, the point and the value
    t_seeds,     \* the seeds create_generator gave to set_seed
    t_build      \* "debug" (overflow checks) or "release" (wrapping)

runVars == <<args, mpc, seedV, widthV, exitStatus, stdout, handles, joined, wpc,
             generator, nGraphs, touched, dest_buffer, files, writers>>
quantVars == <<q_data, q_format, q_img, q_pc>>
graphVars == <<g_pc, g_seed, g_field, g_cache, g_before, g_log, g_stack, g_results,
               g_built, g_vals>>
tileVars == <<t_pc, t_mode, t_plane, t_seed, t_width, t_height, t_buf, t_k, t_log,
              t_seeds, t_build>>
vars == <<runVars, quantVars, graphVars, tileVars>>

\* ------------------------------------------------------------------ types
Planes == <<"XP", "XN", "YP", "YN", "ZP", "ZN">>
PlaneSet == {Planes[i] : i \in 1..Len(Planes)}
Threads == PlaneSet \cup {"main"}
OutputFormats == {"Greyscale8", "Greyscale16", "Colour24"}
Filenames == {"xp.png", "xn.png", "yp.png", "yn.png", "zp.png", "zn.png", "lat_lon.png"}

\* ------------------------------------------------------- argument parsing
DigitChars == <<"0", "1", "2", "3", "4", "5", "6", "7", "8", "9">>
IsDigit(c) == \E i \in 1..10 : DigitChars[i] = c
DigitVal(c) == (CHOOSE i \in 1..10 : DigitChars[i] = c) - 1

RECURSIVE DigitsValue(_)
DigitsValue(s) ==
    IF s = <<>> THEN 0
    ELSE DigitsValue(SubSeq(s, 1, Len(s) - 1)) * 10 + DigitVal(s[Len(s)])

AllDigits(s) == \A i \in 1..Len(s) : IsDigit(s[i])

\* i32::from_str: optional sign, at least one digit, only digits, in range.
i32_from_str(s) ==
    LET signed == Len(s) > 0 /\ s[1] \in {"+", "-"}
        body   == IF signed THEN Tail(s) ELSE s
        mag    == DigitsValue(body)
        val    == IF Len(s) > 0 /\ s[1] = "-" THEN -mag ELSE mag
    IN  IF body = <<>> \/ ~AllDigits(body) THEN [ok |-> FALSE, val |-> 0]
        ELSE IF val > I32Max \/ val < -I32Max - 1 THEN [ok |-> FALSE, val |-> 0]
        ELSE [ok |-> TRUE, val |-> val]

\* usize::from_str: optional "+", at least one digit, only digits; a leading
\* "-" is an invalid digit.  (The arguments tried are far below usize::MAX.)
usize_from_str(s) ==
    LET signed == Len(s) > 0 /\ s[1] = "+"
        body   == IF signed THEN Tail(s) ELSE s
        val    == DigitsValue(body)
    IN  IF body = <<>> \/ ~AllDigits(body) THEN [ok |-> FALSE, val |-> 0]
        ELSE [ok |-> TRUE, val |-> val]

RECURSIVE NatToStr(_)
NatToStr(n) ==
    IF n < 10 THEN <<DigitChars[n + 1]>>
    ELSE Append(NatToStr(n \div 10), DigitChars[(n % 10) + 1])

IntToStr(n) == IF n < 0 THEN <<"-">> \o NatToStr(-n) ELSE NatToStr(n)

\* Command lines tried: every integer seed and width within the bounds, and
\* arguments that are not integers of the wanted type.
SeedArgs == {IntToStr(n) : n \in -MaxSeed..MaxSeed}
            \cup {<<"x">>, <<>>, <<"1", ".", "5">>, <<"-">>}
WidthArgs == {NatToStr(n) : n \in 0..MaxWidth}
             \cup {<<"a">>, <<"-", "1">>, <<>>}

\* ------------------------------------------------------------ float helpers
\* A float NaN, encoded as an integer no computation of the model produces.
NaN == -I32Max
IsNaN(v) == v = NaN

\* Every ordered comparison with NaN is false, so NaN falls through.
f64_clamp(value, lower_bound, upper_bound) ==
    IF IsNaN(value) THEN value
    ELSE IF value < lower_bound THEN lower_bound
    ELSE IF value > upper_bound THEN upper_bound
    ELSE value

clamp(value, lower_bound, upper_bound) ==
    IF value < lower_bound THEN lower_bound
    ELSE IF value > upper_bound THEN upper_bound
    ELSE value

\* Mutant of as_i32: rounds to the nearest integer instead of truncating.
as_i32_rounding(num, den) ==
    IF IsNaN(num) THEN 0
    ELSE LET t == IF num >= 0 THEN (2 * num + den) \div (2 * den)
                  ELSE -((2 * (-num) + den) \div (2 * den))
         IN  clamp(t, -I32Max - 1, I32Max)

\* `(num/den) as i32`: truncation toward zero, saturating, NaN to 0.
as_i32(num, den) ==
    IF IsNaN(num) THEN 0
    ELSE LET t == IF num >= 0 THEN num \div den ELSE -((-num) \div den)
         IN  clamp(t, -I32Max - 1, I32Max)

\* ---------------------------------------------------------------- quantizer
\* `(data[idx] + 1.0) / 2.0`, as a count of 1/(2*ElevDen).
Normalised(v) == IF IsNaN(v) THEN NaN ELSE v + ElevDen
NormOne == 2 * ElevDen

\* Mutant of Quantize: the normalised value is scaled without either clamp.
QuantizeUnclamped(v, scale) ==
    LET value == Normalised(v)
        scaled == IF IsNaN(value) THEN NaN ELSE value * scale
    IN  as_i32(scaled, NormOne)

\* `(f64_clamp(value, 0.0, 1.0) * scale) as i32`, then clamp(value, 0, scale).
Quantize(v, scale) ==
    LET value == f64_clamp(Normalised(v), 0, NormOne)
        scaled == IF IsNaN(value) THEN NaN ELSE value * scale
    IN  clamp(as_i32(scaled, NormOne), 0, scale)

\* Mutant of Greyscale8Bytes: scaled by 256 and cut to a byte by wrapping.
Greyscale8BytesWrapping(v) ==
    LET value == f64_clamp(Normalised(v), 0, NormOne)
        scaled == IF IsNaN(value) THEN NaN ELSE value * 256
    IN  <<as_i32(scaled, NormOne) % 256>>

Greyscale8Bytes(v) == <<Quantize(v, 255)>>

\* Mutant of Greyscale16Bytes: the low byte is written first.
Greyscale16BytesLittleEndian(v) ==
    LET value == Quantize(v, 65535)
    IN  <<value % 256, (value \div 256) % 256>>

Greyscale16Bytes(v) ==
    LET value == Quantize(v, 65535)
    IN  <<(value \div 256) % 256, value % 256>>

\* Mutant of Colour24Bytes: the bytes are written in the order B, G, R.
Colour24BytesReversed(v) ==
    LET value == Quantize(v, 16777215)
    IN  <<value % 256, (value \div 256) % 256, (value \div 65536) % 256>>

Colour24Bytes(v) ==
    LET value == Quantize(v, 16777215)
    IN  <<(value \div 65536) % 256, (value \div 256) % 256, value % 256>>

PixelBytes(v, output_format) ==
    CASE output_format = "Greyscale8" -> Greyscale8Bytes(v)
      [] output_format = "Greyscale16" -> Greyscale16Bytes(v)
      [] output_format = "Colour24" -> Colour24Bytes(v)

\* Mutant of ImgData: the pixels are appended from the last to the first.
RECURSIVE ImgDataReversed(_, _, _, _)
ImgDataReversed(data, idx, count, output_format) ==
    IF idx >= count THEN <<>>
    ELSE ImgDataReversed(data, idx + 1, count, output_format)
         \o PixelBytes(data[idx + 1], output_format)

\* The img_data of write_output_to_file: height*width pixels read from data in
\* index order, each appended as its bytes.
RECURSIVE ImgData(_, _, _, _)
ImgData(data, idx, count, output_format) ==
    IF idx >= count THEN <<>>
    ELSE PixelBytes(data[idx + 1], output_format)
         \o ImgData(data, idx + 1, count, output_format)

ColorType(output_format) ==
    CASE output_format = "Greyscale8" -> <<"Gray", 8>>
      [] output_format = "Greyscale16" -> <<"Gray", 16>>
      [] output_format = "Colour24" -> <<"RGB", 8>>

\* ---------------------------------------------------------------- projection
\* Mutant of coord_to_pos: the XN arm holds x at max_coord, as the XP arm does.
coord_to_pos_xn_slip(plane, a, b, max_coord) ==
    LET xyz == CASE plane = "XP" -> <<max_coord, b, max_coord - a>>
                 [] plane = "XN" -> <<max_coord, b, a>>
                 [] plane = "YP" -> <<a, max_coord, max_coord - b>>
                 [] plane = "YN" -> <<a, 0, b>>
                 [] plane = "ZP" -> <<a, b, max_coord>>
                 [] plane = "ZN" -> <<max_coord - a, b, 0>>
    IN  <<2 * xyz[1] - max_coord, 2 * xyz[2] - max_coord,
          2 * xyz[3] - max_coord, max_coord>>

\* Mutant of lat_lon_to_pos: the longitude runs over 180 degrees only.
lat_lon_to_pos_half_turn(x, y, width, height) ==
    <<(180 * y - 90 * height) * width, (180 * x - 180 * width) * height,
      0, height * width>>

\* coord_to_pos: the point (-1 + 2x/m, -1 + 2y/m, -1 + 2z/m) as the numerators
\* 2x-m, 2y-m, 2z-m over the common denominator m = max_coord (m = 0: 0/0).
coord_to_pos(plane, a, b, max_coord) ==
    LET xyz == CASE plane = "XP" -> <<max_coord, b, max_coord - a>>
                 [] plane = "XN" -> <<0, b, a>>
                 [] plane = "YP" -> <<a, max_coord, max_coord - b>>
                 [] plane = "YN" -> <<a, 0, b>>
                 [] plane = "ZP" -> <<a, b, max_coord>>
                 [] plane = "ZN" -> <<max_coord - a, b, 0>>
    IN  <<2 * xyz[1] - max_coord, 2 * xyz[2] - max_coord,
          2 * xyz[3] - max_coord, max_coord>>

\* The point of latitude -90 + (y/height)*180 and longitude -180 + (x/width)*360,
\* kept as its two angles in degrees over the common denominator height*width.
lat_lon_to_pos(x, y, width, height) ==
    <<(180 * y - 90 * height) * width, (360 * x - 180 * width) * height,
      0, height * width>>

\* generator.get_value at a point: a fixed function of the seed and the point,
\* which may leave [-1,1] by ElevOver; a NaN point gives NaN.
ElevSpan == 2 * (ElevDen + ElevOver) + 1
get_value(seed, p) ==
    IF p[4] = 0 THEN NaN
    ELSE (((seed % ElevSpan) * 7 + p[1] * 3 + p[2] * 5 + p[3] * 11 + p[4]) % ElevSpan)
         - (ElevDen + ElevOver)

\* Mutant of RowStart: grid row b is written to image row b.
RowStartUnflipped(rows, b, width) == b * width

\* `row_start = &mut dest_buffer[((rows - 1 - b) * width)..]`: the index at
\* which the image row of grid row b starts.
RowStart(rows, b, width) == (rows - 1 - b) * width

\* The two loops of output_cube_face after k iterations (b outer, a inner).
RECURSIVE CubeLoop(_, _, _, _, _)
CubeLoop(buf, k, plane, seed, size) ==
    IF k >= size * size THEN buf
    ELSE LET b == k \div size
             a == k % size
             row_start == RowStart(size, b, size)
             p == coord_to_pos(plane, a, b, size - 1)
         IN  CubeLoop([buf EXCEPT ![row_start + a + 1] = get_value(seed, p)],
                      k + 1, plane, seed, size)

\* The two loops of output_rect after k iterations (y outer, x inner).
RECURSIVE RectLoop(_, _, _, _, _)
RectLoop(buf, k, seed, width, height) ==
    IF k >= width * height THEN buf
    ELSE LET y == k \div width
             x == k % width
             row_start == RowStart(height, y, width)
             p == lat_lon_to_pos(x, y, width, height)
         IN  RectLoop([buf EXCEPT ![row_start + x + 1] = get_value(seed, p)],
                      k + 1, seed, width, height)

Zeros(n) == [i \in 1..n |-> 0]

\* Mutant of PlaneFilename: the YN arm carries the YP name.
PlaneFilenameSlip(plane) ==
    CASE plane = "XP" -> "xp.png"
      [] plane = "XN" -> "xn.png"
      [] plane = "YP" -> "yp.png"
      [] plane = "YN" -> "yp.png"
      [] plane = "ZP" -> "zp.png"
      [] plane = "ZN" -> "zn.png"

PlaneFilename(plane) ==
    CASE plane = "XP" -> "xp.png"
      [] plane = "XN" -> "xn.png"
      [] plane = "YP" -> "yp.png"
      [] plane = "YN" -> "yn.png"
      [] plane = "ZP" -> "zp.png"
      [] plane = "ZN" -> "zn.png"

\* ------------------------------------------------------------ program state
Absent == [exists |-> FALSE, bytes |-> <<>>, width |-> 0, height |-> 0,
           ct |-> <<>>, encoded |-> FALSE]

RunInit ==
    /\ args \in [seed : SeedArgs, width : WidthArgs,
                 type : {"cube", "rect"}, format : OutputFormats]
    /\ mpc = "parse_seed"
    /\ seedV = 0
    /\ widthV = 0
    /\ exitStatus = -1
    /\ stdout = <<>>
    /\ handles = <<>>
    /\ joined = 0
    /\ wpc = [t \in PlaneSet |-> "none"]
    /\ generator = [t \in Threads |-> "none"]
    /\ nGraphs = 0
    /\ touched = [g \in Threads |-> {}]
    /\ dest_buffer = [t \in Threads |-> <<>>]
    /\ files = [f \in Filenames |-> Absent]
    /\ writers = [f \in Filenames |-> {}]

OutputFormat == args.format

Running == exitStatus = -1

\* std::process::exit(code), a return from main (0) or a panic of the main
\* thread (101): the process ends and every other thread ends with it.
Exit(code) ==
    /\ mpc' = "exited"
    /\ exitStatus' = code

\* main, lines 1794-1800.
ParseSeed ==
    /\ mpc = "parse_seed"
    /\ LET r == i32_from_str(args.seed)
       IN  IF r.ok
           THEN /\ seedV' = r.val
                /\ mpc' = "parse_width"
                /\ UNCHANGED <<exitStatus, stdout>>
           ELSE /\ stdout' = Append(stdout, "Seed must be an integer")
                /\ Exit(1)
                /\ UNCHANGED seedV
    /\ UNCHANGED <<args, widthV, handles, joined, wpc, generator, nGraphs,
                   touched, dest_buffer, files, writers>>
    /\ UNCHANGED <<quantVars, graphVars, tileVars>>

\* Mutant of ParseWidth: a width that does not parse falls back to 1.
ParseWidthDefaulting ==
    /\ mpc = "parse_width"
    /\ LET r == usize_from_str(args.width)
       IN  widthV' = IF r.ok THEN r.val ELSE 1
    /\ mpc' = "dispatch"
    /\ UNCHANGED <<exitStatus, stdout>>
    /\ UNCHANGED <<args, seedV, handles, joined, wpc, generator, nGraphs,
                   touched, dest_buffer, files, writers>>
    /\ UNCHANGED <<quantVars, graphVars, tileVars>>

\* main, lines 1802-1808.
ParseWidth ==
    /\ mpc = "parse_width"
    /\ LET r == usize_from_str(args.width)
       IN  IF r.ok
           THEN /\ widthV' = r.val
                /\ mpc' = "dispatch"
                /\ UNCHANGED <<exitStatus, stdout>>
           ELSE /\ stdout' = Append(stdout, "Width must be an integer")
                /\ Exit(1)
                /\ UNCHANGED widthV
    /\ UNCHANGED <<args, seedV, handles, joined, wpc, generator, nGraphs,
                   touched, dest_buffer, files, writers>>
    /\ UNCHANGED <<quantVars, graphVars, tileVars>>

\* main, lines 1817-1821.
Dispatch ==
    /\ mpc = "dispatch"
    /\ mpc' = IF args.type = "cube" THEN "cube_spawn" ELSE "rect_render"
    /\ UNCHANGED <<args, seedV, widthV, exitStatus, stdout, handles, joined,
                   wpc, generator, nGraphs, touched, dest_buffer, files, writers>>
    /\ UNCHANGED <<quantVars, graphVars, tileVars>>

\* Mutant of BuildAndEvaluate: one graph, built once by whoever comes first
\* and handed to every thread.
BuildAndEvaluateShared(t) ==
    /\ nGraphs' = IF nGraphs = 0 THEN 1 ELSE nGraphs
    /\ generator' = [generator EXCEPT ![t] = "main"]
    /\ touched' = [touched EXCEPT !["main"] = @ \cup {t}]

\* `let generator = create_generator(seed)` run by thread t, followed by the
\* get_value calls of t's pixel loops on that generator.  A graph is named
\* after the thread whose create_generator call built it.
BuildAndEvaluate(t) ==
    /\ nGraphs' = nGraphs + 1
    /\ generator' = [generator EXCEPT ![t] = t]
    /\ touched' = [touched EXCEPT ![t] = @ \cup {t}]

\* write_output_to_file: the file is created (truncated), then encoded into.
\* outcome: "ok", "create_failed" (File::create .expect panics) or
\* "encode_failed" (encode .expect panics after the file was created).
WriteOutputToFile(t, filename, data, width, height, output_format, outcome) ==
    LET img_data == ImgData(data, 0, width * height, output_format)
    IN  IF outcome = "create_failed"
        THEN UNCHANGED <<files, writers>>
        ELSE /\ writers' = [writers EXCEPT ![filename] = @ \cup {t}]
             /\ files' = [files EXCEPT ![filename] =
                    [exists |-> TRUE,
                     bytes |-> IF outcome = "ok" THEN img_data ELSE <<>>,
                     width |-> width, height |-> height,
                     ct |-> ColorType(output_format),
                     encoded |-> outcome = "ok"]]

WriteOutcomes == {"ok", "create_failed", "encode_failed"}

\* Mutant of Spawn: the second call names the first plane again.
SpawnRepeatingPlane ==
    /\ mpc = "cube_spawn"
    /\ LET n == Len(handles) + 1
           plane == Planes[IF n = 2 THEN 1 ELSE n]
       IN  /\ handles' = Append(handles, plane)
           /\ wpc' = [wpc EXCEPT ![plane] = "start"]
    /\ mpc' = IF Len(handles) + 1 = Len(Planes) THEN "cube_join" ELSE "cube_spawn"
    /\ UNCHANGED <<args, seedV, widthV, exitStatus, stdout, joined, generator,
                   nGraphs, touched, dest_buffer, files, writers>>
    /\ UNCHANGED <<quantVars, graphVars, tileVars>>

\* output_cube, lines 1651-1656: the next output_cube_face call spawns a thread.
Spawn ==
    /\ mpc = "cube_spawn"
    /\ LET plane == Planes[Len(handles) + 1]
       IN  /\ handles' = Append(handles, plane)
           /\ wpc' = [wpc EXCEPT ![plane] = "start"]
    /\ mpc' = IF Len(handles) + 1 = Len(Planes) THEN "cube_join" ELSE "cube_spawn"
    /\ UNCHANGED <<args, seedV, widthV, exitStatus, stdout, joined, generator,
                   nGraphs, touched, dest_buffer, files, writers>>
    /\ UNCHANGED <<quantVars, graphVars, tileVars>>

\* Mutant of Join: the result of join() is dropped instead of unwrapped.
JoinIgnoringResult ==
    /\ mpc = "cube_join"
    /\ LET plane == handles[joined + 1]
       IN  /\ wpc[plane] \in {"finished", "panicked"}
           /\ joined' = joined + 1
           /\ IF joined + 1 = Len(handles)
              THEN Exit(0)
              ELSE UNCHANGED <<mpc, exitStatus>>
    /\ UNCHANGED <<args, seedV, widthV, stdout, handles, wpc, generator,
                   nGraphs, touched, dest_buffer, files, writers>>
    /\ UNCHANGED <<quantVars, graphVars, tileVars>>

\* output_cube, lines 1658-1663: join().unwrap() on the next handle blocks until
\* that thread has ended and panics if it panicked; after the last join
\* output_cube and main return.
Join ==
    /\ mpc = "cube_join"
    /\ LET plane == handles[joined + 1]
       IN  /\ wpc[plane] \in {"finished", "panicked"}
           /\ IF wpc[plane] = "panicked"
              THEN Exit(101) /\ UNCHANGED joined
              ELSE /\ joined' = joined + 1
                   /\ IF joined + 1 = Len(handles)
                      THEN Exit(0)
                      ELSE UNCHANGED <<mpc, exitStatus>>
    /\ UNCHANGED <<args, seedV, widthV, stdout, handles, wpc, generator,
                   nGraphs, touched, dest_buffer, files, writers>>
    /\ UNCHANGED <<quantVars, graphVars, tileVars>>

\* Mutant of WorkerRender: the values depend on how many graphs the process
\* has built before, as they would with generator state shared by the threads.
WorkerRenderSharedState(plane) ==
    /\ Running
    /\ wpc[plane] = "start"
    /\ BuildAndEvaluate(plane)
    /\ dest_buffer' = [dest_buffer EXCEPT ![plane] =
                          CubeLoop(Zeros(widthV * widthV), 0, plane, seedV + nGraphs,
                                   widthV)]
    /\ wpc' = [wpc EXCEPT ![plane] = "rendered"]
    /\ UNCHANGED <<args, mpc, seedV, widthV, exitStatus, stdout, handles,
                   joined, files, writers>>
    /\ UNCHANGED <<quantVars, graphVars, tileVars>>

\* output_cube_face, lines 1623-1636, in the worker thread: the graph is
\* built and every pixel of the face evaluated on it.
WorkerRender(plane) ==
    /\ Running
    /\ wpc[plane] = "start"
    /\ BuildAndEvaluate(plane)
    /\ dest_buffer' = [dest_buffer EXCEPT ![plane] =
                          CubeLoop(Zeros(widthV * widthV), 0, plane, seedV, widthV)]
    /\ wpc' = [wpc EXCEPT ![plane] = "rendered"]
    /\ UNCHANGED <<args, mpc, seedV, widthV, exitStatus, stdout, handles,
                   joined, files, writers>>
    /\ UNCHANGED <<quantVars, graphVars, tileVars>>

\* Mutant of WorkerWrite: a failure to create or encode the file is dropped
\* and the worker ends normally.
WorkerWriteSwallowing(plane) ==
    /\ Running
    /\ wpc[plane] = "rendered"
    /\ \E outcome \in WriteOutcomes :
          /\ WriteOutputToFile(plane, PlaneFilename(plane), dest_buffer[plane],
                               widthV, widthV, OutputFormat, outcome)
          /\ wpc' = [wpc EXCEPT ![plane] = "finished"]
    /\ UNCHANGED <<args, mpc, seedV, widthV, exitStatus, stdout, handles,
                   joined, generator, nGraphs, touched, dest_buffer>>
    /\ UNCHANGED <<quantVars, graphVars, tileVars>>

\* output_cube_face, lines 1638-1646.
WorkerWrite(plane) ==
    /\ Running
    /\ wpc[plane] = "rendered"
    /\ \E outcome \in WriteOutcomes :
          /\ WriteOutputToFile(plane, PlaneFilename(plane), dest_buffer[plane],
                               widthV, widthV, OutputFormat, outcome)
          /\ wpc' = [wpc EXCEPT ![plane] =
                        IF outcome = "ok" THEN "finished" ELSE "panicked"]
    /\ UNCHANGED <<args, mpc, seedV, widthV, exitStatus, stdout, handles,
                   joined, generator, nGraphs, touched, dest_buffer>>
    /\ UNCHANGED <<quantVars, graphVars, tileVars>>

RectHeight == widthV \div 2

\* output_rect, lines 1667-1679, on the calling thread.
RectRender ==
    /\ mpc = "rect_render"
    /\ BuildAndEvaluate("main")
    /\ dest_buffer' = [dest_buffer EXCEPT !["main"] =
                          RectLoop(Zeros(widthV * RectHeight), 0, seedV, widthV,
                                   RectHeight)]
    /\ mpc' = "rect_write"
    /\ UNCHANGED <<args, seedV, widthV, exitStatus, stdout, handles, joined,
                   wpc, files, writers>>
    /\ UNCHANGED <<quantVars, graphVars, tileVars>>

\* output_rect, line 1681, then the return from main.
RectWrite ==
    /\ mpc = "rect_write"
    /\ \E outcome \in WriteOutcomes :
          /\ WriteOutputToFile("main", "lat_lon.png", dest_buffer["main"],
                               widthV, RectHeight, OutputFormat, outcome)
          /\ Exit(IF outcome = "ok" THEN 0 ELSE 101)
    /\ UNCHANGED <<args, seedV, widthV, stdout, handles, joined, wpc,
                   generator, nGraphs, touched, dest_buffer>>
    /\ UNCHANGED <<quantVars, graphVars, tileVars>>

\* The state of a run in which nothing has happened; the specifications of
\* single functions hold the run's variables at these values.
RunIdle ==
    /\ args = [seed |-> <<"0">>, width |-> <<"0">>, type |-> "cube",
               format |-> "Greyscale8"]
    /\ mpc = "parse_seed"
    /\ seedV = 0
    /\ widthV = 0
    /\ exitStatus = -1
    /\ stdout = <<>>
    /\ handles = <<>>
    /\ joined = 0
    /\ wpc = [t \in PlaneSet |-> "none"]
    /\ generator = [t \in Threads |-> "none"]
    /\ nGraphs = 0
    /\ touched = [g \in Threads |-> {}]
    /\ dest_buffer = [t \in Threads |-> <<>>]
    /\ files = [f \in Filenames |-> Absent]
    /\ writers = [f \in Filenames |-> {}]

QuantIdle ==
    /\ q_data = <<>>
    /\ q_format = "Greyscale8"
    /\ q_img = <<>>
    /\ q_pc = "start"

GraphIdle ==
    /\ g_pc = "idle"
    /\ g_seed = 0
    /\ g_field = <<>>
    /\ g_cache = <<>>
    /\ g_before = <<>>
    /\ g_log = <<>>
    /\ g_stack = <<>>
    /\ g_results = <<>>
    /\ g_built = 0
    /\ g_vals = <<>>

TileIdle ==
    /\ t_pc = "idle"
    /\ t_mode = "cube"
    /\ t_plane = "none"
    /\ t_seed = 0
    /\ t_width = 0
    /\ t_height = 0
    /\ t_buf = <<>>
    /\ t_k = 0
    /\ t_log = <<>>
    /\ t_seeds = {}
    /\ t_build = "debug"

Init == RunInit /\ QuantIdle /\ GraphIdle /\ TileIdle

Next ==
    \/ ParseSeed
    \/ ParseWidth
    \/ Dispatch
    \/ Spawn
    \/ Join
    \/ \E plane \in PlaneSet : WorkerRender(plane)
    \/ \E plane \in PlaneSet : WorkerWrite(plane)
    \/ RectRender
    \/ RectWrite

Spec == Init /\ [][Next]_vars

\* ------------------------------------------ the quantizer on its own buffer
\* Elevations tried: every multiple of 1/ElevDen in [-2, 2], and NaN.
QuantElevations == (-2 * ElevDen)..(2 * ElevDen) \cup {NaN}

QuantInit ==
    /\ RunIdle
    /\ GraphIdle
    /\ TileIdle
    /\ q_data \in [1..QuantPixels -> QuantElevations]
    /\ q_format \in OutputFormats
    /\ q_img = <<>>
    /\ q_pc = "start"

\* write_output_to_file, lines 1689-1747: data is converted into img_data.
QuantizeBuffer ==
    /\ q_pc = "start"
    /\ q_img' = ImgData(q_data, 0, Len(q_data), q_format)
    /\ q_pc' = "done"
    /\ UNCHANGED <<q_data, q_format>>
    /\ UNCHANGED <<runVars, graphVars, tileVars>>

QuantNext == QuantizeBuffer

SpecQuant == QuantInit /\ [][QuantNext]_vars

\* ---------------------------------------------------------------- the graph
\* Values of the graph are counts of 1/GDen; GDen is the least denominator
\* in which every value parameter of create_generator is an integer.
GDen == 256 * 5
Q(num, den) == (num * GDen) \div den

\* The configuration constants the comments of lines 88-111 put in an order.
SEA_LEVEL == Q(0, 1)
SHELF_LEVEL == Q(-3, 8)
MOUNTAINS_AMOUNT == Q(1, 2)
HILLS_AMOUNT == (Q(1, 1) + MOUNTAINS_AMOUNT) \div 2

\* The modules of noise::module, as create_generator configures them.
Module(name, kind, ins, k, a, b, c, pts) ==
    [name |-> name, kind |-> kind, ins |-> ins, k |-> k, a |-> a, b |-> b,
     c |-> c, pts |-> pts]
Perlin(name, k) == Module(name, "Perlin", <<>>, k, 0, 0, 0, <<>>)
RidgedMulti(name, k) == Module(name, "RidgedMulti", <<>>, k, 0, 0, 0, <<>>)
Billow(name, k) == Module(name, "Billow", <<>>, k, 0, 0, 0, <<>>)
Voronoi(name, k) == Module(name, "Voronoi", <<>>, k, 0, 0, 0, <<>>)
Constant(name, value) == Module(name, "Constant", <<>>, -1, value, 0, 0, <<>>)
ScaleBias(name, src, scale, bias) ==
    Module(name, "ScaleBias", <<src>>, -1, scale, bias, 0, <<>>)
Clamp(name, src, lower, upper) == Module(name, "Clamp", <<src>>, -1, lower, upper, 0, <<>>)
Curve(name, src, pts) == Module(name, "Curve", <<src>>, -1, 0, 0, 0, pts)
Terrace(name, src, pts) == Module(name, "Terrace", <<src>>, -1, 0, 0, 0, pts)
Exponent(name, src, exponent) == Module(name, "Exponent", <<src>>, -1, exponent, 0, 0, <<>>)
\* Mutant of Turbulence: every turbulence module is given the bare seed.
TurbulenceBareSeed(name, src, k) == Module(name, "Turbulence", <<src>>, 0, 0, 0, 0, <<>>)
Turbulence(name, src, k) == Module(name, "Turbulence", <<src>>, k, 0, 0, 0, <<>>)
Add(name, s0, s1) == Module(name, "Add", <<s0, s1>>, -1, 0, 0, 0, <<>>)
Multiply(name, s0, s1) == Module(name, "Multiply", <<s0, s1>>, -1, 0, 0, 0, <<>>)
Min(name, s0, s1) == Module(name, "Min", <<s0, s1>>, -1, 0, 0, 0, <<>>)
Max(name, s0, s1) == Module(name, "Max", <<s0, s1>>, -1, 0, 0, 0, <<>>)
Blend(name, s0, s1, control) == Module(name, "Blend", <<s0, s1, control>>, -1, 0, 0, 0, <<>>)
Select(name, s0, s1, control, lower, upper, falloff) ==
    Module(name, "Select", <<s0, s1, control>>, -1, lower, upper, falloff, <<>>)
Cache(name, src) == Module(name, "Cache", <<src>>, -1, 0, 0, 0, <<>>)

\* create_generator, lines 156-220.
base_continent_def_nodes ==
    << Perlin("base_continent_def_pe0", 0),
       Curve("base_continent_def_cu", "base_continent_def_pe0",
            <<<<Q(-2, 1), Q(-13, 8)>>,
              <<Q(-1, 1), Q(-11, 8)>>,
              <<Q(0, 1), Q(-3, 8)>>,
              <<Q(1, 16), Q(1, 8)>>,
              <<Q(1, 8), Q(1, 4)>>,
              <<Q(1, 4), Q(1, 1)>>,
              <<Q(1, 2), Q(1, 4)>>,
              <<Q(3, 4), Q(1, 4)>>,
              <<Q(1, 1), Q(1, 2)>>,
              <<Q(2, 1), Q(1, 2)>>>>),
       Perlin("base_continent_def_pe1", 1),
       ScaleBias("base_continent_def_sb", "base_continent_def_pe1", Q(3, 8), Q(5, 8)),
       Min("base_continent_def_mi", "base_continent_def_sb", "base_continent_def_cu"),
       Clamp("base_continent_def_cl", "base_continent_def_mi", Q(-1, 1), Q(1, 1)),
       Cache("base_continent_def", "base_continent_def_cl") >>

\* Mutant of continent_def_nodes: the first turbulence takes as its source a
\* module that is created after it.
continent_def_forward ==
    << Turbulence("continent_def_tu0", "continent_def_tu1", 10),
       Turbulence("continent_def_tu1", "continent_def_tu0", 11),
       Turbulence("continent_def_tu2", "continent_def_tu1", 12),
       Select("continent_def_se",
            "base_continent_def", "continent_def_tu2", "base_continent_def",
            Q(-3, 80), Q(80003, 80), Q(1, 16)),
       Cache("continent_def", "continent_def_se") >>

\* create_generator, lines 239-284.
continent_def_nodes ==
    << Turbulence("continent_def_tu0", "base_continent_def", 10),
       Turbulence("continent_def_tu1", "continent_def_tu0", 11),
       Turbulence("continent_def_tu2", "continent_def_tu1", 12),
       Select("continent_def_se",
            "base_continent_def", "continent_def_tu2", "base_continent_def",
            Q(-3, 80), Q(80003, 80), Q(1, 16)),
       Cache("continent_def", "continent_def_se") >>

\* Mutant of terrain_type_def_nodes: the terrace's control points are added
\* out of order.
terrain_type_def_unordered ==
    << Turbulence("terrain_type_def_tu", "continent_def", 20),
       Terrace("terrain_type_def_te", "terrain_type_def_tu",
            <<<<Q(-1, 1)>>,
              <<Q(1, 1)>>,
              <<Q(-3, 8)>>>>),
       Cache("terrain_type_def", "terrain_type_def_te") >>

\* create_generator, lines 312-331.
terrain_type_def_nodes ==
    << Turbulence("terrain_type_def_tu", "continent_def", 20),
       Terrace("terrain_type_def_te", "terrain_type_def_tu",
            <<<<Q(-1, 1)>>,
              <<Q(-3, 8)>>,
              <<Q(1, 1)>>>>),
       Cache("terrain_type_def", "terrain_type_def_te") >>

\* create_generator, lines 350-426.
mountain_base_def_nodes ==
    << RidgedMulti("mountain_base_def_rm0", 30),
       ScaleBias("mountain_base_def_sb0", "mountain_base_def_rm0", Q(1, 2), Q(3, 8)),
       RidgedMulti("mountain_base_def_rm1", 31),
       ScaleBias("mountain_base_def_sb1", "mountain_base_def_rm1", Q(-2, 1), Q(-1, 2)),
       Constant("mountain_base_def_co", Q(-1, 1)),
       Blend("mountain_base_def_bl",
            "mountain_base_def_co", "mountain_base_def_sb0", "mountain_base_def_sb1"),
       Turbulence("mountain_base_def_tu0", "mountain_base_def_bl", 32),
       Turbulence("mountain_base_def_tu1", "mountain_base_def_tu0", 33),
       Cache("mountain_base_def", "mountain_base_def_tu1") >>

\* create_generator, lines 442-476.
mountainous_high_nodes ==
    << RidgedMulti("mountainous_high_rm0", 40),
       RidgedMulti("mountainous_high_rm1", 41),
       Max("mountainous_high_ma", "mountainous_high_rm0", "mountainous_high_rm1"),
       Turbulence("mountainous_high_tu", "mountainous_high_ma", 42),
       Cache("mountainous_high", "mountainous_high_tu") >>

\* create_generator, lines 492-523.
mountainous_low_nodes ==
    << RidgedMulti("mountainous_low_rm0", 50),
       RidgedMulti("mountainous_low_rm1", 51),
       Multiply("mountainous_low_mu", "mountainous_low_rm0", "mountainous_low_rm1"),
       Cache("mountainous_low", "mountainous_low_mu") >>

\* create_generator, lines 543-598.
mountainous_terrain_nodes ==
    << ScaleBias("mountainous_terrain_sb0", "mountainous_low", Q(1, 32), Q(-31, 32)),
       ScaleBias("mountainous_terrain_sb1", "mountainous_high", Q(1, 4), Q(1, 4)),
       Add("mountainous_terrain_ad", "mountainous_terrain_sb1", "mountain_base_def"),
       Select("mountainous_terrain_se",
            "mountainous_terrain_sb0", "mountainous_terrain_ad", "mountain_base_def",
            Q(-1, 2), Q(1999, 2), Q(1, 2)),
       ScaleBias("mountainous_terrain_sb2", "mountainous_terrain_se", Q(4, 5), Q(0, 1)),
       Exponent("mountainous_terrain_ex", "mountainous_terrain_sb2", Q(11, 8)),
       Cache("mountainous_terrain", "mountainous_terrain_ex") >>

\* create_generator, lines 615-706.
hilly_terrain_nodes ==
    << Billow("hilly_terrain_bi", 60),
       ScaleBias("hilly_terrain_sb0", "hilly_terrain_bi", Q(1, 2), Q(1, 2)),
       RidgedMulti("hilly_terrain_rm", 61),
       ScaleBias("hilly_terrain_sb1", "hilly_terrain_rm", Q(-2, 1), Q(-1, 2)),
       Constant("hilly_terrain_co", Q(-1, 1)),
       Blend("hilly_terrain_bl",
            "hilly_terrain_co", "hilly_terrain_sb1", "hilly_terrain_sb0"),
       ScaleBias("hilly_terrain_sb2", "hilly_terrain_bl", Q(3, 4), Q(-1, 4)),
       Exponent("hilly_terrain_ex", "hilly_terrain_sb2", Q(11, 8)),
       Turbulence("hilly_terrain_tu0", "hilly_terrain_ex", 62),
       Turbulence("hilly_terrain_tu1", "hilly_terrain_tu0", 63),
       Cache("hilly_terrain", "hilly_terrain_tu1") >>

\* create_generator, lines 728-776.
plains_terrain_nodes ==
    << Billow("plains_terrain_bi0", 70),
       ScaleBias("plains_terrain_sb0", "plains_terrain_bi0", Q(1, 2), Q(1, 2)),
       Billow("plains_terrain_bi1", 71),
       ScaleBias("plains_terrain_sb1", "plains_terrain_bi1", Q(1, 2), Q(1, 2)),
       Multiply("plains_terrain_mu", "plains_terrain_sb0", "plains_terrain_sb1"),
       ScaleBias("plains_terrain_sb2", "plains_terrain_mu", Q(2, 1), Q(-1, 1)),
       Cache("plains_terrain", "plains_terrain_sb2") >>

\* create_generator, lines 795-833.
badlands_sand_nodes ==
    << RidgedMulti("badlands_sand_rm", 80),
       ScaleBias("badlands_sand_sb0", "badlands_sand_rm", Q(7, 8), Q(0, 1)),
       Voronoi("badlands_sand_vo", 81),
       ScaleBias("badlands_sand_sb1", "badlands_sand_vo", Q(1, 4), Q(1, 4)),
       Add("badlands_sand_ad", "badlands_sand_sb0", "badlands_sand_sb1"),
       Cache("badlands_sand", "badlands_sand_ad") >>

\* create_generator, lines 847-907.
badlands_cliffs_nodes ==
    << Perlin("badlands_cliffs_pe", 90),
       Curve("badlands_cliffs_cu", "badlands_cliffs_pe",
            <<<<Q(-2, 1), Q(-2, 1)>>,
              <<Q(-1, 1), Q(-5, 4)>>,
              <<Q(0, 1), Q(-3, 4)>>,
              <<Q(1, 2), Q(-1, 4)>>,
              <<Q(5, 8), Q(7, 8)>>,
              <<Q(3, 4), Q(1, 1)>>,
              <<Q(2, 1), Q(5, 4)>>>>),
       Clamp("badlands_cliffs_cl", "badlands_cliffs_cu", Q(-7993, 8), Q(7, 8)),
       Terrace("badlands_cliffs_te", "badlands_cliffs_cl",
            <<<<Q(-1, 1)>>,
              <<Q(-7, 8)>>,
              <<Q(-3, 4)>>,
              <<Q(-1, 2)>>,
              <<Q(0, 1)>>,
              <<Q(1, 1)>>>>),
       Turbulence("badlands_cliffs_tu0", "badlands_cliffs_te", 91),
       Turbulence("badlands_cliffs_tu1", "badlands_cliffs_tu0", 92),
       Cache("badlands_cliffs", "badlands_cliffs_tu1") >>

\* create_generator, lines 928-941.
badlands_terrain_nodes ==
    << ScaleBias("badlands_terrain_sb", "badlands_sand", Q(1, 4), Q(-3, 4)),
       Max("badlands_terrain_ma", "badlands_cliffs", "badlands_terrain_sb"),
       Cache("badlands_terrain", "badlands_terrain_ma") >>

\* create_generator, lines 959-1019.
river_positions_nodes ==
    << RidgedMulti("river_positions_rm0", 100),
       Curve("river_positions_cu0", "river_positions_rm0",
            <<<<Q(-2, 1), Q(2, 1)>>,
              <<Q(-1, 1), Q(1, 1)>>,
              <<Q(-1, 8), Q(7, 8)>>,
              <<Q(0, 1), Q(-1, 1)>>,
              <<Q(1, 1), Q(-3, 2)>>,
              <<Q(2, 1), Q(-2, 1)>>>>),
       RidgedMulti("river_positions_rm1", 101),
       Curve("river_positions_cu1", "river_positions_rm1",
            <<<<Q(-2, 1), Q(2, 1)>>,
              <<Q(-1, 1), Q(3, 2)>>,
              <<Q(-1, 8), Q(23, 16)>>,
              <<Q(0, 1), Q(1, 2)>>,
              <<Q(1, 1), Q(1, 4)>>,
              <<Q(2, 1), Q(0, 1)>>>>),
       Min("river_positions_mi", "river_positions_cu0", "river_positions_cu1"),
       Turbulence("river_positions_tu", "river_positions_mi", 102),
       Cache("river_positions", "river_positions_tu") >>

\* create_generator, lines 1046-1089.
scaled_mountainous_terrain_nodes ==
    << ScaleBias("scaled_mountainous_terrain_sb0", "mountainous_terrain", Q(1, 8), Q(1, 8)),
       Perlin("scaled_mountainous_terrain_pe", 110),
       Exponent("scaled_mountainous_terrain_ex", "scaled_mountainous_terrain_pe", Q(5, 4)),
       ScaleBias("scaled_mountainous_terrain_sb1",
            "scaled_mountainous_terrain_ex",
            Q(1, 4), Q(1, 1)),
       Multiply("scaled_mountainous_terrain_mu",
            "scaled_mountainous_terrain_sb0", "scaled_mountainous_terrain_sb1"),
       Cache("scaled_mountainous_terrain", "scaled_mountainous_terrain_mu") >>

\* create_generator, lines 1117-1160.
scaled_hilly_terrain_nodes ==
    << ScaleBias("scaled_hilly_terrain_sb0", "hilly_terrain", Q(1, 16), Q(1, 16)),
       Perlin("scaled_hilly_terrain_pe", 120),
       Exponent("scaled_hilly_terrain_ex", "scaled_hilly_terrain_pe", Q(5, 4)),
       ScaleBias("scaled_hilly_terrain_sb1", "scaled_hilly_terrain_ex", Q(1, 2), Q(3, 2)),
       Multiply("scaled_hilly_terrain_mu",
            "scaled_hilly_terrain_sb0", "scaled_hilly_terrain_sb1"),
       Cache("scaled_hilly_terrain", "scaled_hilly_terrain_mu") >>

\* create_generator, lines 1187-1194.
scaled_plains_terrain_nodes ==
    << ScaleBias("scaled_plains_terrain_sb", "plains_terrain", Q(1, 256), Q(1, 128)),
       Cache("scaled_plains_terrain", "scaled_plains_terrain_sb") >>

\* create_generator, lines 1221-1229.
scaled_badlands_terrain_nodes ==
    << ScaleBias("scaled_badlands_terrain_sb", "badlands_terrain", Q(1, 16), Q(1, 16)),
       Cache("scaled_badlands_terrain", "scaled_badlands_terrain_sb") >>

\* create_generator, lines 1253-1290.
continental_shelf_nodes ==
    << Terrace("continental_shelf_te", "continent_def",
            <<<<Q(-1, 1)>>,
              <<Q(-3, 4)>>,
              <<Q(-3, 8)>>,
              <<Q(1, 1)>>>>),
       RidgedMulti("continental_shelf_rm", 130),
       ScaleBias("continental_shelf_sb", "continental_shelf_rm", Q(-1, 8), Q(-1, 8)),
       Clamp("continental_shelf_cl", "continental_shelf_te", Q(-3, 4), Q(0, 1)),
       Add("continental_shelf_ad", "continental_shelf_sb", "continental_shelf_cl"),
       Cache("continental_shelf", "continental_shelf_ad") >>

\* create_generator, lines 1307-1326.
base_continent_elev_nodes ==
    << ScaleBias("base_continent_elev_sb", "continent_def", Q(1, 4), Q(0, 1)),
       Select("base_continent_elev_se",
            "base_continent_elev_sb", "continental_shelf", "continent_def",
            Q(-8003, 8), Q(-3, 8), Q(1, 32)),
       Cache("base_continent_elev", "base_continent_elev_se") >>

\* create_generator, lines 1342-1347.
continents_with_plains_nodes ==
    << Add("continents_with_plains_ad", "base_continent_elev", "scaled_plains_terrain"),
       Cache("continents_with_plains", "continents_with_plains_ad") >>

\* create_generator, lines 1363-1380.
continents_with_hills_nodes ==
    << Add("continents_with_hills_ad", "base_continent_elev", "scaled_hilly_terrain"),
       Select("continents_with_hills_se",
            "continents_with_plains", "continents_with_hills_ad", "terrain_type_def",
            Q(1, 4), Q(4001, 4), Q(1, 4)),
       Cache("continents_with_hills", "continents_with_hills_se") >>

\* create_generator, lines 1397-1435.
continents_with_mountains_nodes ==
    << Add("continents_with_mountains_ad0",
            "base_continent_elev", "scaled_mountainous_terrain"),
       Curve("continents_with_mountains_cu", "continent_def",
            <<<<Q(-1, 1), Q(-1, 16)>>,
              <<Q(0, 1), Q(0, 1)>>,
              <<Q(1, 2), Q(1, 16)>>,
              <<Q(1, 1), Q(1, 4)>>>>),
       Add("continents_with_mountains_ad1",
            "continents_with_mountains_ad0", "continents_with_mountains_cu"),
       Select("continents_with_mountains_se",
            "continents_with_hills", "continents_with_mountains_ad1", "terrain_type_def",
            Q(1, 2), Q(2001, 2), Q(1, 4)),
       Cache("continents_with_mountains", "continents_with_mountains_se") >>

\* create_generator, lines 1452-1495.
continents_with_badlands_nodes ==
    << Perlin("continents_with_badlands_pe", 140),
       Add("continents_with_badlands_ad", "base_continent_elev", "scaled_badlands_terrain"),
       Select("continents_with_badlands_se",
            "continents_with_mountains",
            "continents_with_badlands_ad",
            "continents_with_badlands_pe",
            Q(31, 32), Q(32031, 32), Q(1, 4)),
       Max("continents_with_badlands_ma",
            "continents_with_mountains", "continents_with_badlands_se"),
       Cache("continents_with_badlands", "continents_with_badlands_ma") >>


\* Mutant of continents_with_rivers_nodes: the river depth is taken from the
\* continents instead of river_positions, which is then used by nothing.
continents_with_rivers_dry ==
    << ScaleBias("continents_with_rivers_sb", "continents_with_badlands", Q(3, 256), Q(-3, 256)),
       Add("continents_with_rivers_ad",
            "continents_with_badlands", "continents_with_rivers_sb"),
       Select("continents_with_rivers_se",
            "continents_with_badlands",
            "continents_with_rivers_ad",
            "continents_with_badlands",
            Q(0, 1), Q(1, 4), Q(1, 4)),
       Cache("continents_with_rivers", "continents_with_rivers_se") >>

\* create_generator, lines 1512-1538.
continents_with_rivers_nodes ==
    << ScaleBias("continents_with_rivers_sb", "river_positions", Q(3, 256), Q(-3, 256)),
       Add("continents_with_rivers_ad",
            "continents_with_badlands", "continents_with_rivers_sb"),
       Select("continents_with_rivers_se",
            "continents_with_badlands",
            "continents_with_rivers_ad",
            "continents_with_badlands",
            Q(0, 1), Q(1, 4), Q(1, 4)),
       Cache("continents_with_rivers", "continents_with_rivers_se") >>

unscaled_final_planet_clamped ==
    << Clamp("unscaled_final_planet_cl", "continents_with_rivers", Q(-1, 1), Q(1, 1)),
       Cache("unscaled_final_planet", "unscaled_final_planet_cl") >>

\* create_generator, line 1550.
unscaled_final_planet_nodes ==
    << Cache("unscaled_final_planet", "continents_with_rivers") >>

\* The subgroups of create_generator, in the order the function builds them.
Subgroups ==
    << base_continent_def_nodes,
       continent_def_nodes,
       terrain_type_def_nodes,
       mountain_base_def_nodes,
       mountainous_high_nodes,
       mountainous_low_nodes,
       mountainous_terrain_nodes,
       hilly_terrain_nodes,
       plains_terrain_nodes,
       badlands_sand_nodes,
       badlands_cliffs_nodes,
       badlands_terrain_nodes,
       river_positions_nodes,
       scaled_mountainous_terrain_nodes,
       scaled_hilly_terrain_nodes,
       scaled_plains_terrain_nodes,
       scaled_badlands_terrain_nodes,
       continental_shelf_nodes,
       base_continent_elev_nodes,
       continents_with_plains_nodes,
       continents_with_hills_nodes,
       continents_with_mountains_nodes,
       continents_with_badlands_nodes,
       continents_with_rivers_nodes,
       unscaled_final_planet_nodes >>

RECURSIVE Concat(_)
Concat(tables) == IF tables = <<>> THEN <<>> ELSE Head(tables) \o Concat(Tail(tables))

\* Every module of create_generator, in the order the function builds them.
Nodes == Concat(Subgroups)

NodeNames == {Nodes[i].name : i \in 1..Len(Nodes)}
Node == [nm \in NodeNames |-> Nodes[CHOOSE i \in 1..Len(Nodes) : Nodes[i].name = nm]]
CacheNames == {nm \in NodeNames : Node[nm].kind = "Cache"}
SourceKinds == {"Perlin", "RidgedMulti", "Billow", "Voronoi"}

\* `Box::new(unscaled_final_planet)`, line 1552.
Root == "unscaled_final_planet"

\* ------------------------------------------------- evaluation of the graph
\* Fixed-point product, quotient and the interpolations of the library.
MulG(x, y) == (x * y) \div GDen
DivG(x, y) == (x * GDen) \div y
Lerp(n0, n1, alpha) == n0 + MulG(n1 - n0, alpha)
SCurve3(alpha) == MulG(MulG(alpha, alpha), 3 * GDen - 2 * alpha)

RECURSIVE ISqrtIn(_, _, _)
ISqrtIn(y, lo, hi) ==
    IF lo >= hi THEN lo
    ELSE LET m == (lo + hi + 1) \div 2
         IN  IF m * m <= y THEN ISqrtIn(y, m, hi) ELSE ISqrtIn(y, lo, m - 1)
SqrtG(x) == ISqrtIn(x * GDen, 0, 4 * GDen)

RECURSIVE PowInt(_, _)
PowInt(x, n) == IF n = 0 THEN GDen ELSE MulG(PowInt(x, n - 1), x)
\* x ^ exponent for x >= 0 and an exponent of 1 or more in eighths.
PowG(x, exponent) ==
    LET eighths == (exponent * 8) \div GDen
    IN  MulG(x, PowInt(SqrtG(SqrtG(SqrtG(x))), eighths - 8))

\* The values a primitive source takes: the ends and the middle of its
\* nominal range [-1, 1], and on either side a value beyond it, which the
\* outermost control points of the curves (inputs -2 and 2) allow for.
Overshoot == (5 * GDen) \div 4
NoiseValues == <<-Overshoot, -GDen, 0, GDen, Overshoot>>
NoiseFields == [0..(NoiseClasses - 1) -> 0..(Len(NoiseValues) - 1)]
Points == 0..(NoisePoints - 1)
GraphSeeds == -MaxSeed..MaxSeed

\* A seeded source is a function of its seed and the point.
Noise(s, p) == NoiseValues[((g_field[s % NoiseClasses] + p) % Len(NoiseValues)) + 1]
\* Turbulence displaces the point by noise of its own seed.
Warp(s, p) == (p + 1 + s) % NoisePoints

ClampValue(v, lower, upper) == IF v < lower THEN lower ELSE IF v > upper THEN upper ELSE v

\* Curve: cubic through the four control points nearest v, linear outside.
CurveValue(pts, v) ==
    LET n  == Len(pts)
        ip == Cardinality({i \in 1..n : pts[i][1] <= v}) + 1
        i0 == clamp(ip - 2, 1, n)
        i1 == clamp(ip - 1, 1, n)
        i2 == clamp(ip, 1, n)
        i3 == clamp(ip + 1, 1, n)
        ea == IF i1 = 1 THEN 1 ELSE n - 1
        alpha == DivG(v - pts[i1][1], pts[i2][1] - pts[i1][1])
        cp == (pts[i3][2] - pts[i2][2]) - (pts[i0][2] - pts[i1][2])
        cq == (pts[i0][2] - pts[i1][2]) - cp
        cr == pts[i2][2] - pts[i0][2]
    IN  IF i1 = i2
        THEN pts[ea][2] + ((pts[ea + 1][2] - pts[ea][2]) * (v - pts[ea][1]))
                              \div (pts[ea + 1][1] - pts[ea][1])
        ELSE MulG(MulG(MulG(cp, alpha) + cq, alpha) + cr, alpha) + pts[i1][2]

\* Terrace: between two adjacent control values, blended by alpha squared.
TerraceValue(pts, v) ==
    LET n  == Len(pts)
        ip == Cardinality({i \in 1..n : pts[i][1] <= v}) + 1
        i0 == clamp(ip - 1, 1, n)
        i1 == clamp(ip, 1, n)
        alpha == DivG(v - pts[i0][1], pts[i1][1] - pts[i0][1])
    IN  IF i0 = i1 THEN pts[i1][1]
        ELSE Lerp(pts[i0][1], pts[i1][1], MulG(alpha, alpha))

\* Exponent: normalise to [0, 1], raise, map back to [-1, 1].
ExponentValue(exponent, v) ==
    LET x == (v + GDen) \div 2
        r == PowG(IF x < 0 THEN -x ELSE x, exponent)
    IN  2 * (IF x < 0 THEN -r ELSE r) - GDen

\* Select: source1 inside [lower, upper], source0 outside, blended by a
\* cubic S-curve within falloff of either bound.
SelectValue(lower, upper, falloff, s0, s1, control) ==
    IF falloff > 0
    THEN IF control < lower - falloff THEN s0
         ELSE IF control < lower + falloff
         THEN Lerp(s0, s1, SCurve3(DivG(control - (lower - falloff), 2 * falloff)))
         ELSE IF control < upper - falloff THEN s1
         ELSE IF control < upper + falloff
         THEN Lerp(s1, s0, SCurve3(DivG(control - (upper - falloff), 2 * falloff)))
         ELSE s0
    ELSE IF control < lower \/ control > upper THEN s0 ELSE s1

BlendValue(s0, s1, control) == Lerp(s0, s1, ClampValue((control + GDen) \div 2, 0, GDen))

\* The point at which module n queries its inputs when queried at p.
InputPoint(n, p) == IF n.kind = "Turbulence" THEN Warp(g_seed + n.k, p) ELSE p

\* The output of module n at p, given the values vs of its inputs.
Output(n, p, vs) ==
    CASE n.kind \in SourceKinds -> Noise(g_seed + n.k, p)
      [] n.kind = "Constant"    -> n.a
      [] n.kind = "ScaleBias"   -> MulG(vs[1], n.a) + n.b
      [] n.kind = "Clamp"       -> ClampValue(vs[1], n.a, n.b)
      [] n.kind = "Curve"       -> CurveValue(n.pts, vs[1])
      [] n.kind = "Terrace"     -> TerraceValue(n.pts, vs[1])
      [] n.kind = "Exponent"    -> ExponentValue(n.a, vs[1])
      [] n.kind = "Turbulence"  -> vs[1]
      [] n.kind = "Add"         -> vs[1] + vs[2]
      [] n.kind = "Multiply"    -> MulG(vs[1], vs[2])
      [] n.kind = "Min"         -> IF vs[1] < vs[2] THEN vs[1] ELSE vs[2]
      [] n.kind = "Max"         -> IF vs[1] > vs[2] THEN vs[1] ELSE vs[2]
      [] n.kind = "Blend"       -> BlendValue(vs[1], vs[2], vs[3])
      [] n.kind = "Select"      -> SelectValue(n.a, n.b, n.c, vs[1], vs[2], vs[3])
      [] n.kind = "Cache"       -> vs[1]

\* The values vs of the inputs of module n at point q, given the values
\* vals of the modules built before it.
InputValues(n, q, vals) ==
    IF Len(n.ins) = 0 THEN <<>>
    ELSE IF Len(n.ins) = 1 THEN <<vals[n.ins[1]][q + 1]>>
    ELSE IF Len(n.ins) = 2 THEN <<vals[n.ins[1]][q + 1], vals[n.ins[2]][q + 1]>>
    ELSE <<vals[n.ins[1]][q + 1], vals[n.ins[2]][q + 1], vals[n.ins[3]][q + 1]>>

\* The value of module n at every point from p on, with nothing remembered.
RECURSIVE OverPoints(_, _, _)
OverPoints(n, p, vals) ==
    IF p >= NoisePoints THEN <<>>
    ELSE <<Output(n, p, InputValues(n, InputPoint(n, p), vals))>>
         \o OverPoints(n, p + 1, vals)

\* vals extended by the values of the first i modules of a subgroup.
Extend(n, vals) == vals @@ (n.name :> OverPoints(n, 0, vals))
RECURSIVE OverModules(_, _, _)
OverModules(table, i, vals) ==
    IF i = 0 THEN vals ELSE Extend(table[i], OverModules(table, i - 1, vals))

\* A control-point table the library accepts: a curve has 4 points or more, a
\* terrace 2 or more, each added at an input above the one before.
Ascending(pts) == \A i \in 1..(Len(pts) - 1) : pts[i][1] < pts[i + 1][1]
WellFormed(n) ==
    CASE n.kind = "Curve"   -> Len(n.pts) >= 4 /\ Ascending(n.pts)
      [] n.kind = "Terrace" -> Len(n.pts) >= 2 /\ Ascending(n.pts)
      [] OTHER              -> TRUE

\* The Cache modules of a subgroup.
CachesOf(table) == {table[i].name : i \in {j \in 1..Len(table) : table[j].kind = "Cache"}}

\* --------------------------------------------------- one generation session
\* A Cache module before its first query.  n counts the calls to its source.
Unqueried == [valid |-> FALSE, p |-> 0, v |-> 0, n |-> 0]
Lookup(p, hit, v) == [p |-> p, hit |-> hit, v |-> v]
\* A query the stored pair answers: one at the point last queried.
StoredAnyPoint(c, p) == c.valid
Stored(c, p) == c.valid /\ c.p = p

\* A get_value call in progress on module nm at point p, with the values vs
\* its inputs have returned so far.
Frame(nm, p) == [nm |-> nm, p |-> p, vs |-> <<>>]
Top == g_stack[Len(g_stack)]
TopNode == Node[Top.nm]
Answered == TopNode.kind = "Cache" /\ Top.vs = <<>> /\ Stored(g_cache[Top.nm], Top.p)

GraphInit ==
    /\ RunIdle
    /\ QuantIdle
    /\ TileIdle
    /\ g_pc = "unbuilt"
    /\ g_seed = 0
    /\ g_field \in NoiseFields
    /\ g_cache = <<>>
    /\ g_before = <<>>
    /\ g_log = <<>>
    /\ g_stack = <<>>
    /\ g_results = <<>>
    /\ g_built = 0
    /\ g_vals = <<>>

\* create_generator(seed) is called, line 135.
CreateGenerator ==
    /\ g_pc = "unbuilt"
    /\ \E seed \in GraphSeeds : g_seed' = seed
    /\ g_pc' = "building"
    /\ UNCHANGED <<g_field, g_cache, g_before, g_log, g_stack, g_results, g_built,
                   g_vals>>
    /\ UNCHANGED <<runVars, quantVars, tileVars>>

\* create_generator builds its next subgroup from the modules built so far;
\* a malformed control-point table ends the construction.
BuildSubgroup ==
    /\ g_pc = "building"
    /\ g_built < Len(Subgroups)
    /\ LET table == Subgroups[g_built + 1]
       IN  IF \A i \in 1..Len(table) : WellFormed(table[i])
           THEN /\ g_built' = g_built + 1
                /\ g_vals' = OverModules(table, Len(table), g_vals)
                /\ g_cache' = g_cache @@ [c \in CachesOf(table) |-> Unqueried]
                /\ UNCHANGED g_pc
           ELSE /\ g_pc' = "rejected"
                /\ UNCHANGED <<g_built, g_vals, g_cache>>
    /\ UNCHANGED <<g_seed, g_field, g_before, g_log, g_stack, g_results>>
    /\ UNCHANGED <<runVars, quantVars, tileVars>>

\* `Box::new(unscaled_final_planet)`, line 1552: the root is returned.
ReturnGenerator ==
    /\ g_pc = "building"
    /\ g_built = Len(Subgroups)
    /\ g_pc' = "built"
    /\ g_before' = g_cache
    /\ g_log' = [c \in CacheNames |-> <<>>]
    /\ UNCHANGED <<g_seed, g_field, g_cache, g_stack, g_results, g_built, g_vals>>
    /\ UNCHANGED <<runVars, quantVars, tileVars>>

\* generator.get_value(pos), lines 1634 and 1677, on the returned root.
GetValue ==
    /\ g_pc = "built"
    /\ Len(g_results) < MaxQueries
    /\ \E p \in Points : g_stack' = <<Frame(Root, p)>>
    /\ g_before' = g_cache
    /\ g_log' = [c \in CacheNames |-> <<>>]
    /\ g_pc' = "querying"
    /\ UNCHANGED <<g_seed, g_field, g_cache, g_results, g_built, g_vals>>
    /\ UNCHANGED <<runVars, quantVars, tileVars>>

\* The call on top returns v: to the module that queried it, or as the
\* result of the call on the root.
Return(v) ==
    IF Len(g_stack) = 1
    THEN /\ g_results' = Append(g_results, <<Top.p, v>>)
         /\ g_stack' = <<>>
         /\ g_pc' = "built"
    ELSE /\ g_stack' = [SubSeq(g_stack, 1, Len(g_stack) - 1)
                           EXCEPT ![Len(g_stack) - 1].vs = Append(@, v)]
         /\ UNCHANGED <<g_results, g_pc>>

\* A module queries its next input, a turbulence at the displaced point.
QueryInput ==
    /\ g_pc = "querying"
    /\ ~Answered
    /\ Len(Top.vs) < Len(TopNode.ins)
    /\ g_stack' = Append(g_stack, Frame(TopNode.ins[Len(Top.vs) + 1],
                                        InputPoint(TopNode, Top.p)))
    /\ UNCHANGED <<g_pc, g_seed, g_field, g_cache, g_before, g_log, g_results, g_built,
                   g_vals>>
    /\ UNCHANGED <<runVars, quantVars, tileVars>>

\* A module other than a Cache returns its output for its inputs' values.
ReturnOutput ==
    /\ g_pc = "querying"
    /\ TopNode.kind # "Cache"
    /\ Len(Top.vs) = Len(TopNode.ins)
    /\ Return(Output(TopNode, Top.p, Top.vs))
    /\ UNCHANGED <<g_seed, g_field, g_cache, g_before, g_log, g_built, g_vals>>
    /\ UNCHANGED <<runVars, quantVars, tileVars>>

\* Cache::get at the stored point: the stored value, the source not called.
CacheHit ==
    /\ g_pc = "querying"
    /\ Answered
    /\ g_log' = [g_log EXCEPT ![Top.nm] = Append(@, Lookup(Top.p, TRUE, g_cache[Top.nm].v))]
    /\ Return(g_cache[Top.nm].v)
    /\ UNCHANGED <<g_seed, g_field, g_cache, g_before, g_built, g_vals>>
    /\ UNCHANGED <<runVars, quantVars, tileVars>>

\* Cache::get at any other point, once the source has returned: its value
\* replaces the stored pair and is returned.
CacheMiss ==
    /\ g_pc = "querying"
    /\ TopNode.kind = "Cache"
    /\ Len(Top.vs) = 1
    /\ g_cache' = [g_cache EXCEPT ![Top.nm] =
                      [valid |-> TRUE, p |-> Top.p, v |-> Top.vs[1], n |-> @.n + 1]]
    /\ g_log' = [g_log EXCEPT ![Top.nm] = Append(@, Lookup(Top.p, FALSE, Top.vs[1]))]
    /\ Return(Top.vs[1])
    /\ UNCHANGED <<g_seed, g_field, g_before, g_built, g_vals>>
    /\ UNCHANGED <<runVars, quantVars, tileVars>>

GraphNext ==
    \/ CreateGenerator
    \/ BuildSubgroup
    \/ ReturnGenerator
    \/ GetValue
    \/ QueryInput
    \/ ReturnOutput
    \/ CacheHit
    \/ CacheMiss

SpecGraph == GraphInit /\ [][GraphNext]_vars

\* ------------------------------------------- the pixel loops of one tile
\* The offsets k of the set_seed(seed + k) calls of create_generator.
SeedOffsets == {Nodes[i].k : i \in {j \in 1..Len(Nodes) : Nodes[j].k >= 0}}
\* `seed + k` in i32, k >= 0: whether it overflows, and its wrapped value.
Overflows(seed, k) == seed > I32Max - k
wrapping_add(seed, k) ==
    IF Overflows(seed, k) THEN ((seed - I32Max) - 1) + ((k - I32Max) - 1) ELSE seed + k
\* The seeds tried: the small ones, and the ends of i32 with the last seed
\* whose greatest offset fits and the first whose greatest offset does not.
TileSeeds == (-MaxSeed..MaxSeed) \cup {-I32Max - 1, I32Max - 140, I32Max - 139, I32Max}

\* usize arithmetic, for a target whose usize has 32 bits.  ByteOf is byte i
\* of x, ProductBytes the eight bytes of the exact product of x and y.
ByteOf(x, i) == IF i >= 4 THEN 0 ELSE (x \div (256 ^ i)) % 256
RECURSIVE ColumnSum(_, _, _, _)
ColumnSum(x, y, i, j) ==
    IF j > i THEN 0 ELSE ByteOf(x, j) * ByteOf(y, i - j) + ColumnSum(x, y, i, j + 1)
RECURSIVE ProductBytes(_, _, _, _)
ProductBytes(x, y, i, carry) ==
    IF i = 8 THEN <<>>
    ELSE LET t == ColumnSum(x, y, i, 0) + carry
         IN  <<t % 256>> \o ProductBytes(x, y, i + 1, t \div 256)
\* A usize of 2^31 or more: greater than every length the model holds.
TooBig == I32Max
\* `x * y` in usize: whether it overflows, and the product modulo 2^32.
usize_mul(x, y) ==
    LET d == ProductBytes(x, y, 0, 0)
    IN  [overflow |-> \E i \in 5..8 : d[i] # 0,
         val |-> IF d[4] >= 128 THEN TooBig
                 ELSE d[1] + 256 * d[2] + 65536 * d[3] + 16777216 * d[4]]
\* The greatest length of a Vec<f64>: isize::MAX bytes.
AllocMax == I32Max \div 8

TileStart(widths, seeds) ==
    /\ RunIdle
    /\ QuantIdle
    /\ GraphIdle
    /\ t_pc = "start"
    /\ t_mode \in {"cube", "rect"}
    /\ t_plane \in (IF t_mode = "cube" THEN PlaneSet ELSE {"none"})
    /\ t_seed \in seeds
    /\ t_width \in widths
    /\ t_height = 0
    /\ t_buf = <<>>
    /\ t_k = 0
    /\ t_log = <<>>
    /\ t_seeds = {}
    /\ t_build \in {"debug", "release"}

TileInit == TileStart(0..MaxTile, TileSeeds)

\* output_cube_face, lines 1623-1624; output_rect, lines 1667-1669:
\* create_generator gives each seeded module seed + k, then dest_buffer is
\* allocated with width * height elements.  An addition or a product that
\* overflows panics in a build with overflow checks (debug) and wraps in one
\* without (release); a length beyond AllocMax panics in both.
Allocate ==
    /\ t_pc = "start"
    /\ IF t_build = "debug" /\ \E k \in SeedOffsets : Overflows(t_seed, k)
       THEN /\ t_pc' = "panicked"
            /\ UNCHANGED <<t_height, t_buf, t_seeds>>
       ELSE LET height == IF t_mode = "cube" THEN t_width ELSE t_width \div 2
                len == usize_mul(t_width, height)
            IN  /\ t_seeds' = {wrapping_add(t_seed, k) : k \in SeedOffsets}
                /\ t_height' = height
                /\ IF (t_build = "debug" /\ len.overflow) \/ len.val > AllocMax
                   THEN t_pc' = "panicked" /\ UNCHANGED t_buf
                   ELSE t_pc' = "loop" /\ t_buf' = Zeros(len.val)
    /\ UNCHANGED <<t_mode, t_plane, t_seed, t_width, t_k, t_log, t_build>>
    /\ UNCHANGED <<runVars, quantVars, graphVars>>

\* One pass through the body of the inner loop: row_start is the slice of
\* dest_buffer from (rows - 1 - b) * width on, which panics when it starts
\* beyond the buffer's end; the value at grid coordinate (a, b), evaluated
\* at pos, is stored at row_start[a], which panics when a is beyond the
\* slice's end.
Pixel(a, b, pos) ==
    LET start == usize_mul(t_height - 1 - b, t_width)
    IN  IF t_build = "debug" /\ start.overflow
        THEN t_pc' = "panicked" /\ UNCHANGED <<t_buf, t_log, t_k>>
        ELSE IF start.val > Len(t_buf) \/ a >= Len(t_buf) - start.val
        THEN t_pc' = "out_of_range" /\ UNCHANGED <<t_buf, t_log, t_k>>
        ELSE LET v == get_value(t_seed, pos)
             IN  /\ t_buf' = [t_buf EXCEPT ![RowStart(t_height, b, t_width) + a + 1] = v]
                 /\ t_log' = Append(t_log, [a |-> a, b |-> b, pos |-> pos, v |-> v])
                 /\ t_k' = t_k + 1
                 /\ UNCHANGED t_pc

\* The loops `for b in 0..rows { for a in 0..width` have an iteration left.
InLoops == t_width > 0 /\ t_k \div t_width < t_height

\* output_cube_face, lines 1626-1635.
CubePixel ==
    /\ t_pc = "loop"
    /\ t_mode = "cube"
    /\ InLoops
    /\ LET b == t_k \div t_width
           a == t_k % t_width
       IN  Pixel(a, b, coord_to_pos(t_plane, a, b, t_width - 1))
    /\ UNCHANGED <<t_mode, t_plane, t_seed, t_width, t_height, t_seeds, t_build>>
    /\ UNCHANGED <<runVars, quantVars, graphVars>>

\* output_rect, lines 1671-1678.
RectPixel ==
    /\ t_pc = "loop"
    /\ t_mode = "rect"
    /\ InLoops
    /\ LET y == t_k \div t_width
           x == t_k % t_width
       IN  Pixel(x, y, lat_lon_to_pos(x, y, t_width, t_height))
    /\ UNCHANGED <<t_mode, t_plane, t_seed, t_width, t_height, t_seeds, t_build>>
    /\ UNCHANGED <<runVars, quantVars, graphVars>>

\* Both loops have run out: dest_buffer goes to write_output_to_file.
LoopsEnd ==
    /\ t_pc = "loop"
    /\ ~InLoops
    /\ t_pc' = "done"
    /\ UNCHANGED <<t_mode, t_plane, t_seed, t_width, t_height, t_buf, t_k, t_log,
                   t_seeds, t_build>>
    /\ UNCHANGED <<runVars, quantVars, graphVars>>

TileNext ==
    \/ Allocate
    \/ CubePixel
    \/ RectPixel
    \/ LoopsEnd

SpecTile == TileInit /\ [][TileNext]_vars

\* The tiles of great width: the least width whose square overflows usize,
\* beside the small ones, with small seeds.
WideWidth == 2 ^ 16
TileInitWide == TileStart((0..MaxTile) \cup {WideWidth}, -MaxSeed..MaxSeed)
SpecWide == TileInitWide /\ [][TileNext]_vars

\* ------------------------------------ a run, or one session taken by itself
\* Either a whole run of the program (its get_value calls taken in one step)
\* or one generation session followed call by call.
DetInit == Init \/ GraphInit
DetNext ==
    \/ g_pc = "idle" /\ Next
    \/ GraphNext
SpecDet == DetInit /\ [][DetNext]_vars

\* ==================================================================== claims
Ended(plane) == wpc[plane] \in {"finished", "panicked"}
CubeRun == args.type = "cube" /\ mpc \notin {"parse_seed", "parse_width", "dispatch"}
           /\ (mpc = "exited" => handles # <<>>)
AllAbsent == \A f \in Filenames : ~files[f].exists /\ writers[f] = {}

FinalSelect == "continents_with_rivers_se"
AfterLookup(c, e) ==
    IF e.hit THEN c
    ELSE [valid |-> TRUE, p |-> e.p, v |-> e.v, n |-> c.n + 1]
RECURSIVE StateAfter(_, _)
StateAfter(c, log) ==
    IF log = <<>> THEN c ELSE StateAfter(AfterLookup(c, Head(log)), Tail(log))
C3_CacheOnePair ==
    g_pc \in {"built", "querying"} =>
        \A nm \in CacheNames :
            /\ \A i \in 1..Len(g_log[nm]) :
                  LET c == StateAfter(g_before[nm], SubSeq(g_log[nm], 1, i - 1))
                      e == g_log[nm][i]
                  IN  /\ e.hit <=> (c.valid /\ c.p = e.p)
                      /\ e.hit => e.v = c.v
            /\ g_cache[nm] = StateAfter(g_before[nm], g_log[nm])
            /\ g_cache[nm].n =
                  g_before[nm].n + Cardinality({i \in 1..Len(g_log[nm]) : ~g_log[nm][i].hit})

\* One get_value call has looked a cache up twice in a row at the same point
\* and, at another time, at a point other than the stored one.
C3_Witness ==
    /\ g_pc \in {"built", "querying"}
    /\ \E nm \in CacheNames :
          /\ \E i \in 2..Len(g_log[nm]) :
                g_log[nm][i].hit /\ g_log[nm][i - 1].p = g_log[nm][i].p
          /\ \E i \in 1..Len(g_log[nm]) :
                LET c == StateAfter(g_before[nm], SubSeq(g_log[nm], 1, i - 1))
                IN  c.valid /\ c.p # g_log[nm][i].p /\ ~g_log[nm][i].hit

\* C2: a graph is built and evaluated by one thread only, the thread whose
\* own create_generator call built it: every worker that has rendered holds
\* its own graph, no graph is touched by two threads, and in cube mode the
\* controlling thread builds and holds none.
C2_PrivateSessions ==
    /\ \A g \in Threads : touched[g] \subseteq {g}
    /\ \A t \in Threads : generator[t] \in {"none", t}
    /\ \A plane \in PlaneSet :
          wpc[plane] \in {"rendered", "finished", "panicked"} => generator[plane] = plane
    /\ nGraphs = Cardinality({t \in Threads : generator[t] # "none"})
    /\ args.type = "cube" => generator["main"] = "none" /\ touched["main"] = {}

C2_Witness ==
    /\ args.type = "cube"
    /\ nGraphs = 6
    /\ \A plane \in PlaneSet : wpc[plane] = "rendered" /\ touched[plane] = {plane}

\* C4: in cube mode the process has not exited while a spawned worker is
\* still running, also when a worker has failed.
C4_ExitAfterAllWorkers ==
    (mpc = "exited" /\ handles # <<>>) =>
        \A i \in 1..Len(handles) : Ended(handles[i])

\* C5: after a worker has panicked the run never exits with success: a
\* successful exit of a cube run means all six workers finished, and an exit
\* with a panicked worker carries the panic status of the controlling thread.
C5_WorkerFailureFailsRun ==
    /\ (mpc = "exited" /\ (\E plane \in PlaneSet : wpc[plane] = "panicked"))
          => exitStatus = 101
    /\ (mpc = "exited" /\ exitStatus = 0 /\ args.type = "cube")
          => \A plane \in PlaneSet : wpc[plane] = "finished"

C5_Witness ==
    /\ mpc = "exited"
    /\ exitStatus = 101
    /\ wpc["ZN"] = "panicked"
    /\ \A plane \in PlaneSet \ {"ZN"} :
          wpc[plane] = "finished" /\ files[PlaneFilename(plane)].encoded

\* C6: the handles are the planes XP, XN, YP, YN, ZP, ZN in that order, each
\* once; a worker exists exactly when its handle does; no join happens before
\* all six are spawned; rect mode spawns nothing and evaluates on main.
SixPlanes == <<"XP", "XN", "YP", "YN", "ZP", "ZN">>
C6_SixWorkersOnePerFace ==
    /\ Len(handles) <= 6
    /\ \A i \in 1..Len(handles) : handles[i] = SixPlanes[i]
    /\ \A plane \in PlaneSet :
          wpc[plane] # "none" <=> \E i \in 1..Len(handles) : handles[i] = plane
    /\ (mpc = "cube_join" \/ joined > 0) => Len(handles) = 6
    /\ (args.type = "cube" /\ mpc = "exited" /\ exitStatus = 0) => joined = 6
    /\ args.type = "rect" =>
          /\ handles = <<>>
          /\ \A g \in Threads : touched[g] \subseteq {"main"}
          /\ \A plane \in PlaneSet : dest_buffer[plane] = <<>>

C6_Witness ==
    /\ mpc = "cube_join"
    /\ joined = 0
    /\ \A plane \in PlaneSet : wpc[plane] = "rendered"

C6_WitnessRect ==
    /\ args.type = "rect"
    /\ mpc = "exited"
    /\ exitStatus = 0
    /\ Len(dest_buffer["main"]) > 0

\* C7: each file is created by the worker of its face only (lat_lon.png by
\* main only); a cube run touches no lat_lon.png and a rect run no face file;
\* a successful run leaves exactly its files, and an encoded file's bytes are
\* those of its face for the run's seed, size and format, whatever the order
\* in which the workers ran.
FaceOfFile == [f \in Filenames |->
    CASE f = "xp.png" -> "XP" [] f = "xn.png" -> "XN" [] f = "yp.png" -> "YP"
      [] f = "yn.png" -> "YN" [] f = "zp.png" -> "ZP" [] f = "zn.png" -> "ZN"
      [] f = "lat_lon.png" -> "main"]
CubeFiles == Filenames \ {"lat_lon.png"}
Encoded(f) == files[f].exists /\ files[f].encoded
C7_FilesPerWorker ==
    /\ \A f \in Filenames : writers[f] \subseteq {FaceOfFile[f]}
    /\ \A f \in Filenames : files[f].exists => writers[f] # {}
    /\ args.type = "cube" => ~files["lat_lon.png"].exists
    /\ args.type = "rect" => \A f \in CubeFiles : ~files[f].exists
    /\ (mpc = "exited" /\ exitStatus = 0) =>
          \A f \in Filenames :
             Encoded(f) <=> IF args.type = "cube" THEN f \in CubeFiles
                            ELSE f = "lat_lon.png"
    /\ \A f \in CubeFiles : Encoded(f) =>
          /\ files[f].bytes =
                ImgData(CubeLoop(Zeros(widthV * widthV), 0, FaceOfFile[f], seedV, widthV),
                        0, widthV * widthV, args.format)
          /\ files[f].width = widthV /\ files[f].height = widthV
    /\ Encoded("lat_lon.png") =>
          /\ files["lat_lon.png"].bytes =
                ImgData(RectLoop(Zeros(widthV * (widthV \div 2)), 0, seedV, widthV,
                                 widthV \div 2),
                        0, widthV * (widthV \div 2), args.format)
          /\ files["lat_lon.png"].width = widthV
          /\ files["lat_lon.png"].height = widthV \div 2

C7_Witness ==
    /\ args.type = "cube"
    /\ mpc = "exited"
    /\ exitStatus = 0
    /\ \A f \in CubeFiles : Encoded(f) /\ Len(files[f].bytes) > 0 /\ writers[f] = {FaceOfFile[f]}

C7_WitnessRect ==
    /\ args.type = "rect"
    /\ mpc = "exited"
    /\ exitStatus = 0
    /\ Encoded("lat_lon.png")
    /\ Len(files["lat_lon.png"].bytes) > 0

\* C8: with a seed or a width argument that is not the text of an integer,
\* no graph is ever built, no worker spawned and no file created, and the
\* process ends with status 1 after printing one error line.
IntegerText(s) ==
    LET body == IF Len(s) > 0 /\ s[1] \in {"+", "-"} THEN Tail(s) ELSE s
    IN  /\ body # <<>>
        /\ \A i \in 1..Len(body) :
              body[i] \in {"0", "1", "2", "3", "4", "5", "6", "7", "8", "9"}
C8_BadArgumentExitsEarly ==
    (~IntegerText(args.seed) \/ ~IntegerText(args.width)) =>
        /\ nGraphs = 0
        /\ handles = <<>>
        /\ \A plane \in PlaneSet : wpc[plane] = "none"
        /\ AllAbsent
        /\ \A t \in Threads : dest_buffer[t] = <<>>
        /\ mpc \in {"parse_seed", "parse_width", "exited"}
        /\ mpc = "exited" => exitStatus = 1 /\ Len(stdout) = 1
        /\ (mpc = "exited" /\ ~IntegerText(args.seed)) =>
              stdout = <<"Seed must be an integer">>
        /\ (mpc = "exited" /\ IntegerText(args.seed)) =>
              stdout = <<"Width must be an integer">>

C8_Witness ==
    /\ IntegerText(args.seed)
    /\ ~IntegerText(args.width)
    /\ mpc = "exited"
    /\ exitStatus = 1
    /\ stdout = <<"Width must be an integer">>

C8_WitnessSeed ==
    /\ ~IntegerText(args.seed)
    /\ mpc = "exited"
    /\ exitStatus = 1

\* C9 as stated: a greyscale-8 byte is the scaled value rounded to the
\* nearest integer, then bounded to [0,255].
RoundDiv(num, den) ==
    IF num >= 0 THEN (2 * num + den) \div (2 * den)
    ELSE -((2 * (-num) + den) \div (2 * den))
TruncDiv(num, den) ==
    IF num >= 0 THEN num \div den ELSE -((-num) \div den)
Bound(n, lo, hi) == IF n < lo THEN lo ELSE IF n > hi THEN hi ELSE n
Grey8Done == q_pc = "done" /\ q_format = "Greyscale8"
C9_Original ==
    Grey8Done =>
        \A i \in 1..Len(q_data) : ~IsNaN(q_data[i]) =>
            q_img[i] = Bound(RoundDiv((q_data[i] + ElevDen) * 255, 2 * ElevDen), 0, 255)

\* C9 amended: a greyscale-8 byte is the scaled value ((v+1)/2)*255 truncated
\* toward zero, then bounded to [0,255].
C9_Truncates ==
    Grey8Done =>
        /\ Len(q_img) = Len(q_data)
        /\ \A i \in 1..Len(q_data) : ~IsNaN(q_data[i]) =>
              q_img[i] = Bound(TruncDiv((q_data[i] + ElevDen) * 255, 2 * ElevDen), 0, 255)

\* An elevation of 0 scales to 127.5: the byte is 127, where rounding gives 128.
C9_Witness ==
    /\ Grey8Done
    /\ q_data[1] = 0
    /\ q_img[1] = 127

\* C10: greyscale-8 maps -1.0 to 0 and +1.0 to 255, and a greater or equal
\* elevation never gets a smaller byte.
C10_EndpointsAndMonotonic ==
    Grey8Done =>
        \A i \in 1..Len(q_data) : ~IsNaN(q_data[i]) =>
            /\ q_data[i] = -ElevDen => q_img[i] = 0
            /\ q_data[i] = ElevDen => q_img[i] = 255
            /\ \A j \in 1..Len(q_data) :
                  (~IsNaN(q_data[j]) /\ q_data[i] <= q_data[j]) => q_img[i] <= q_img[j]

C10_Witness ==
    /\ Grey8Done
    /\ q_data[1] = -ElevDen
    /\ q_data[2] = ElevDen
    /\ q_img = <<0, 255>>

\* C11: greyscale-16 writes two bytes per pixel, the high byte first, and
\* hi*256 + lo is the elevation scaled from [-1,1] onto 0..65535 (the scaled
\* value cut to an integer and bounded), -1.0 giving 0x0000, +1.0 giving 0xFFFF.
Grey16Done == q_pc = "done" /\ q_format = "Greyscale16"
Scaled(v, scale) == Bound(TruncDiv((v + ElevDen) * scale, 2 * ElevDen), 0, scale)
C11_Grey16BigEndian ==
    Grey16Done =>
        /\ Len(q_img) = 2 * Len(q_data)
        /\ \A i \in 1..Len(q_img) : q_img[i] \in 0..255
        /\ \A i \in 1..Len(q_data) : ~IsNaN(q_data[i]) =>
              /\ q_img[2 * i - 1] = Scaled(q_data[i], 65535) \div 256
              /\ q_img[2 * i] = Scaled(q_data[i], 65535) % 256
              /\ q_img[2 * i - 1] * 256 + q_img[2 * i] = Scaled(q_data[i], 65535)
              /\ q_data[i] = -ElevDen => q_img[2 * i - 1] = 0 /\ q_img[2 * i] = 0
              /\ q_data[i] = ElevDen => q_img[2 * i - 1] = 255 /\ q_img[2 * i] = 255

\* An elevation of -0.875 scales to 4095 = 0x0FFF: the bytes are 0x0F, 0xFF.
C11_Witness ==
    /\ Grey16Done
    /\ q_data[1] = 1 - ElevDen
    /\ q_img[1] < q_img[2]
    /\ q_img[1] * 256 + q_img[2] = (65535 \div (2 * ElevDen))
    /\ q_data[2] = ElevDen
    /\ q_img[3] = 255 /\ q_img[4] = 255

\* C12: colour-24 writes three bytes per pixel, R, G, B in that order, the
\* bits 23..16, 15..8 and 7..0 of the elevation scaled from [-1,1] onto
\* 0..16777215, -1.0 giving (0,0,0) and +1.0 giving (255,255,255).
Colour24Done == q_pc = "done" /\ q_format = "Colour24"
C12_Colour24RGB ==
    Colour24Done =>
        /\ Len(q_img) = 3 * Len(q_data)
        /\ \A i \in 1..Len(q_img) : q_img[i] \in 0..255
        /\ \A i \in 1..Len(q_data) : ~IsNaN(q_data[i]) =>
              LET n == Scaled(q_data[i], 16777215)
                  R == q_img[3 * i - 2]
                  G == q_img[3 * i - 1]
                  B == q_img[3 * i]
              IN  /\ R = n \div 65536
                  /\ G = (n \div 256) % 256
                  /\ B = n % 256
                  /\ R * 65536 + G * 256 + B = n
                  /\ q_data[i] = -ElevDen => <<R, G, B>> = <<0, 0, 0>>
                  /\ q_data[i] = ElevDen => <<R, G, B>> = <<255, 255, 255>>

\* An elevation of -0.875 scales to 1048575 = 0x0FFFFF: the bytes are
\* 0x0F, 0xFF, 0xFF, the first differing from the last; beside it one at +1.0.
C12_Witness ==
    /\ Colour24Done
    /\ q_data[1] = 1 - ElevDen
    /\ q_img[1] < q_img[3] /\ q_img[2] = 255
    /\ q_data[2] = ElevDen
    /\ SubSeq(q_img, 4, 6) = <<255, 255, 255>>

\* C13: on a cube face of size 2 or more every grid index maps to a point of
\* [-1,1]^3 whose held axis is constant (XP x=+1, XN x=-1, YP y=+1, YN y=-1,
\* ZP z=+1, ZN z=-1), and the four grid corners map to four distinct cube
\* vertices of that face, every coordinate exactly -1 or +1.
Abs(n) == IF n < 0 THEN -n ELSE n
CubeTile == t_mode = "cube" /\ t_pc \in {"loop", "done"}
HeldAxis == [plane \in PlaneSet |->
    CASE plane \in {"XP", "XN"} -> 1 [] plane \in {"YP", "YN"} -> 2
      [] plane \in {"ZP", "ZN"} -> 3]
HeldSign == [plane \in PlaneSet |-> IF plane \in {"XP", "YP", "ZP"} THEN 1 ELSE -1]
Corner(e) == e.a \in {0, t_width - 1} /\ e.b \in {0, t_width - 1}
C13_FacePointsAndCorners ==
    (CubeTile /\ t_width >= 2) =>
        LET m == t_width - 1
        IN  \A i \in 1..Len(t_log) :
               LET e == t_log[i]
               IN  /\ e.pos[4] = m
                   /\ \A c \in 1..3 : Abs(e.pos[c]) <= m
                   /\ e.pos[HeldAxis[t_plane]] = HeldSign[t_plane] * m
                   /\ Corner(e) => \A c \in 1..3 : Abs(e.pos[c]) = m
                   /\ \A j \in 1..Len(t_log) :
                         (Corner(e) /\ Corner(t_log[j]) /\ i # j) => e.pos # t_log[j].pos

\* A face of size 3 whose loops have run out: nine points, four of them corners.
C13_Witness ==
    /\ CubeTile
    /\ t_pc = "done"
    /\ t_plane = "XN"
    /\ t_width = 3
    /\ Cardinality({i \in 1..Len(t_log) : Corner(t_log[i])}) = 4
    /\ Cardinality({t_log[i].pos : i \in 1..Len(t_log)}) = 9

\* C14: in rect mode pixel (0,0) is evaluated at latitude -90 and longitude
\* -180, pixel (width-1, height-1) at a latitude within 180/height of +90
\* and a longitude within 360/width of +180, and latitude is linear in y,
\* longitude linear in x.  (Angles are numerators over height*width.)
RectTile == t_mode = "rect" /\ t_pc \in {"loop", "done"}
C14_RectCornersAndLinear ==
    RectTile =>
        LET den == t_height * t_width
        IN  \A i \in 1..Len(t_log) :
               LET e == t_log[i]
               IN  /\ e.pos[4] = den
                   /\ (e.a = 0 /\ e.b = 0) =>
                         e.pos[1] = -90 * den /\ e.pos[2] = -180 * den
                   /\ (e.a = t_width - 1 /\ e.b = t_height - 1) =>
                         /\ 90 * den - e.pos[1] >= 0
                         /\ 90 * den - e.pos[1] <= 180 * t_width
                         /\ 180 * den - e.pos[2] >= 0
                         /\ 180 * den - e.pos[2] <= 360 * t_height
                   /\ \A j \in 1..Len(t_log) :
                         LET f == t_log[j]
                         IN  /\ f.pos[1] - e.pos[1] = (f.b - e.b) * 180 * t_width
                             /\ f.pos[2] - e.pos[2] = (f.a - e.a) * 360 * t_height

\* A 4 x 2 grid whose loops have run out: both corners have been evaluated.
C14_Witness ==
    /\ RectTile
    /\ t_pc = "done"
    /\ t_width = 4
    /\ t_height = 2
    /\ t_log[1].a = 0 /\ t_log[1].b = 0
    /\ t_log[8].a = 3 /\ t_log[8].b = 1

\* C15: in both modes the value evaluated at grid coordinate (a,b) is stored
\* at buffer index (rows-1-b)*width + a: the loops visit the grid row by row
\* from b = 0, the first image row holds grid row rows-1 and the last holds
\* grid row 0, columns keep their order; the finished buffer is the one the
\* run hands to write_output_to_file.
C15_RowMajorFlipped ==
    t_pc \in {"loop", "done"} =>
        /\ Len(t_buf) = t_width * t_height
        /\ Len(t_log) = t_k
        /\ \A i \in 1..Len(t_log) :
              LET e == t_log[i]
              IN  /\ e.a = (i - 1) % t_width
                  /\ e.b = (i - 1) \div t_width
                  /\ t_buf[(t_height - 1 - e.b) * t_width + e.a + 1] = e.v
                  /\ e.b = t_height - 1 => t_buf[e.a + 1] = e.v
                  /\ e.b = 0 => t_buf[(t_height - 1) * t_width + e.a + 1] = e.v
        /\ t_pc = "done" =>
              /\ Len(t_log) = t_width * t_height
              /\ t_buf = IF t_mode = "cube"
                         THEN CubeLoop(Zeros(t_width * t_width), 0, t_plane, t_seed, t_width)
                         ELSE RectLoop(Zeros(t_width * t_height), 0, t_seed, t_width, t_height)

\* A finished tile of three rows whose first and last image rows differ.
C15_Witness ==
    /\ t_pc = "done"
    /\ t_height = 3
    /\ SubSeq(t_buf, 1, t_width) # SubSeq(t_buf, 2 * t_width + 1, 3 * t_width)
    /\ t_log[1].v = t_buf[2 * t_width + 1]

\* A finished rect tile of two rows whose image rows differ.
C15_WitnessRect ==
    /\ t_pc = "done"
    /\ t_mode = "rect"
    /\ t_height = 2
    /\ SubSeq(t_buf, 1, t_width) # SubSeq(t_buf, t_width + 1, 2 * t_width)

\* C16: generation is deterministic.  The buffer of every thread that has
\* rendered and the bytes of every encoded file are functions of the command
\* line alone (seed, type, width, format), whatever the interleaving of the
\* workers; and every value the root returns is the value of the graph at
\* that point, so two calls at one point return the same value whether the
\* cache answered or the graph was evaluated again, and every pair a cache
\* holds is a true (point, value) pair of its source.
ArgSeed == i32_from_str(args.seed).val
ArgWidth == usize_from_str(args.width).val
BufferOf(t) ==
    IF t = "main"
    THEN RectLoop(Zeros(ArgWidth * (ArgWidth \div 2)), 0, ArgSeed, ArgWidth,
                  ArgWidth \div 2)
    ELSE CubeLoop(Zeros(ArgWidth * ArgWidth), 0, t, ArgSeed, ArgWidth)
C16_WitnessRun ==
    /\ args.type = "cube"
    /\ args.format = "Colour24"
    /\ ArgWidth = 2
    /\ mpc = "exited"
    /\ exitStatus = 0
    /\ \A f \in CubeFiles : Encoded(f) /\ Len(files[f].bytes) = 12

\* C17: the configuration constants satisfy shelf-level < sea-level and
\* hills-amount < mountains-amount <= 1.0, or else the run has failed fast:
\* no graph is built and no pixel evaluated with constants out of order.
ConstantsInOrder ==
    /\ SHELF_LEVEL < SEA_LEVEL
    /\ HILLS_AMOUNT < MOUNTAINS_AMOUNT
    /\ MOUNTAINS_AMOUNT <= Q(1, 1)
C17_ConstantsValidated ==
    \/ ConstantsInOrder
    \/ /\ nGraphs = 0
       /\ \A t \in Threads : dest_buffer[t] = <<>>
       /\ mpc = "exited" => exitStatus # 0

\* C18: every seeded module (Perlin, ridged-multi, billow, Voronoi,
\* turbulence) built so far was given seed + k for an offset k >= 0 of its
\* own, no other module carries an offset, and the seeds given are pairwise
\* distinct; the finished graph has 33 seeded modules.
ModulesIn == [g \in 0..Len(Subgroups) |-> Len(Concat(SubSeq(Subgroups, 1, g)))]
Seeded(n) == n.kind \in SourceKinds \cup {"Turbulence"}
SeededIn == [g \in 0..Len(Subgroups) |-> {i \in 1..ModulesIn[g] : Seeded(Nodes[i])}]
OffsetsIn == [g \in 0..Len(Subgroups) |->
    \A i \in 1..ModulesIn[g] : IF Seeded(Nodes[i]) THEN Nodes[i].k >= 0 ELSE Nodes[i].k = -1]
SeededBuilt == SeededIn[g_built]
SeedsGiven == {g_seed + Nodes[i].k : i \in SeededBuilt}
C18_DistinctSeeds ==
    g_pc \in {"building", "built", "querying"} =>
        /\ OffsetsIn[g_built]
        /\ Cardinality(SeedsGiven) = Cardinality(SeededBuilt)
        /\ g_built = Len(Subgroups) => Cardinality(SeededBuilt) = 33

\* The whole graph is built: 33 seeds, the least the global seed itself and
\* the greatest the global seed plus 140.
C18_Witness ==
    /\ g_pc = "built"
    /\ Cardinality(SeedsGiven) = 33
    /\ \A sd \in SeedsGiven : sd >= g_seed /\ sd <= g_seed + 140
    /\ g_seed \in SeedsGiven
    /\ g_seed + 140 \in SeedsGiven

\* C19: every control-point table of create_generator is well-formed: each
\* curve built has 4 control points or more and each terrace 2 or more, the
\* inputs strictly increasing in insertion order; the finished graph has five
\* curves and three terraces; no construction is rejected, and a query is
\* only ever made on a graph whose tables are all well-formed.
Strictly(pts) == \A i, j \in 1..Len(pts) : i < j => pts[i][1] < pts[j][1]
TableOk(n) ==
    /\ n.kind = "Curve" => Len(n.pts) >= 4 /\ Strictly(n.pts)
    /\ n.kind = "Terrace" => Len(n.pts) >= 2 /\ Strictly(n.pts)
    /\ n.kind \notin {"Curve", "Terrace"} => n.pts = <<>>
TablesOkIn == [g \in 0..Len(Subgroups) |-> \A i \in 1..ModulesIn[g] : TableOk(Nodes[i])]
KindIn(kind) == {i \in 1..Len(Nodes) : Nodes[i].kind = kind}
C20_WriteFailureIsFatal ==
    /\ \A plane \in PlaneSet :
          /\ wpc[plane] = "finished" => Encoded(PlaneFilename(plane))
          /\ wpc[plane] = "panicked" =>
                /\ ~Encoded(PlaneFilename(plane))
                /\ mpc = "exited" =>
                      /\ exitStatus = 101
                      /\ joined < Len(handles)
                      /\ wpc[handles[joined + 1]] = "panicked"
    /\ \A f \in Filenames : writers[f] \subseteq {FaceOfFile[f]}
    /\ (args.type = "rect" /\ mpc = "exited" /\ generator["main"] # "none") =>
          /\ exitStatus \in {0, 101}
          /\ exitStatus = 0 <=> Encoded("lat_lon.png")
          /\ \A f \in CubeFiles : ~files[f].exists

\* A cube run has ended in failure: the YP worker could not create its
\* file, the ZN worker could not encode into the file it had created.
C20_Witness ==
    /\ args.type = "cube"
    /\ mpc = "exited"
    /\ exitStatus = 101
    /\ wpc["YP"] = "panicked" /\ ~files["yp.png"].exists
    /\ wpc["ZN"] = "panicked" /\ files["zn.png"].exists /\ ~files["zn.png"].encoded
    /\ joined = 2

\* A rect run has ended in failure at the write, lat_lon.png not encoded.
C20_WitnessRect ==
    /\ args.type = "rect"
    /\ mpc = "exited"
    /\ exitStatus = 101
    /\ generator["main"] = "main"
    /\ ~Encoded("lat_lon.png")

\* C21: the graph of create_generator is acyclic and built in topological
\* order.  Every module has the number of inputs of its kind (none for a
\* source or a constant, two for add, multiply, min and max, three for blend
\* and select, one otherwise), each of them a module created before it; the
\* root is the last module created; the generator is returned, and any
\* get_value call made, only once every subgroup is built; and a call in
\* progress descends from the root along input edges, to modules created
\* ever earlier.
Index == [nm \in NodeNames |-> CHOOSE i \in 1..Len(Nodes) : Nodes[i].name = nm]
Arity(kind) ==
    CASE kind \in SourceKinds \cup {"Constant"}        -> 0
      [] kind \in {"Add", "Multiply", "Min", "Max"}    -> 2
      [] kind \in {"Blend", "Select"}                  -> 3
      [] OTHER                                         -> 1
Wired(i) ==
    /\ Len(Nodes[i].ins) = Arity(Nodes[i].kind)
    /\ \A j \in 1..Len(Nodes[i].ins) :
          \E h \in 1..(i - 1) : Nodes[h].name = Nodes[i].ins[j]
WiredIn == [g \in 0..Len(Subgroups) |-> \A i \in 1..ModulesIn[g] : Wired(i)]
Consumers(nm) == {i \in 1..Len(Nodes) : \E j \in 1..Len(Nodes[i].ins) : Nodes[i].ins[j] = nm}
InputOf(consumer, nm) ==
    \E j \in 1..Len(Node[consumer].ins) : Node[consumer].ins[j] = nm
WholeGraphWired ==
    /\ Cardinality(NodeNames) = Len(Nodes)
    /\ WiredIn[Len(Subgroups)]
    /\ Index[Root] = Len(Nodes)
SharedCaches == {nm \in CacheNames : Cardinality(Consumers(nm)) >= 2}
C21_TopologicalOrder ==
    /\ WholeGraphWired
    /\ g_pc \in {"building", "built", "querying"} => WiredIn[g_built]
    /\ g_pc \in {"built", "querying"} => g_built = Len(Subgroups)
    /\ g_pc \in {"unbuilt", "building"} => g_stack = <<>> /\ g_results = <<>>
    /\ g_pc = "querying" =>
          /\ g_stack # <<>>
          /\ g_stack[1].nm = Root
          /\ \A d \in 2..Len(g_stack) :
                /\ Index[g_stack[d].nm] < Index[g_stack[d - 1].nm]
                /\ InputOf(g_stack[d - 1].nm, g_stack[d].nm)

\* A call on the root has descended to a primitive source, through a cache
\* that several modules take as an input.
C21_Witness ==
    /\ g_pc = "querying"
    /\ Len(g_stack) >= 3
    /\ TopNode.kind \in SourceKinds
    /\ \E d \in 1..Len(g_stack) : g_stack[d].nm \in SharedCaches

\* C22 as stated: the buffer handed to the encoder has width * height *
\* channel-bytes bytes, pixel i of the elevation buffer at bytes [i*c, i*c+c),
\* and the elevation buffer itself is quantized in place, so that after the
\* write it holds the bytes encoded.
ChannelBytes(output_format) ==
    CASE output_format = "Greyscale8" -> 1
      [] output_format = "Greyscale16" -> 2
      [] output_format = "Colour24" -> 3
PixelLayout(f) ==
    LET c == ChannelBytes(OutputFormat)
        data == dest_buffer[FaceOfFile[f]]
    IN  /\ Len(data) = files[f].width * files[f].height
        /\ Len(files[f].bytes) = files[f].width * files[f].height * c
        /\ \A i \in 0..(Len(data) - 1) :
              SubSeq(files[f].bytes, i * c + 1, i * c + c) = PixelBytes(data[i + 1], OutputFormat)
C22_Original ==
    \A f \in Filenames :
        Encoded(f) =>
            /\ Len(files[f].bytes) = files[f].width * files[f].height * ChannelBytes(OutputFormat)
            /\ dest_buffer[FaceOfFile[f]] = files[f].bytes

\* C22: write_output_to_file reads the elevation buffer and fills a byte
\* buffer of its own: the bytes encoded number width * height * channel-bytes
\* (1, 2 or 3), pixel i of the elevation buffer gives bytes [i*c, i*c+c) in
\* the same row-major order, and after the write the elevation buffer still
\* holds the width * height elevations, not the bytes.
C22_SeparateByteBuffer ==
    \A f \in Filenames :
        Encoded(f) =>
            /\ PixelLayout(f)
            /\ files[f].bytes # <<>> => dest_buffer[FaceOfFile[f]] # files[f].bytes

\* A face of 2 x 2 pixels is encoded in colour-24 as 12 bytes and a map of
\* 2 x 1 pixels in greyscale-16 as 4, the elevations still in their buffers.
C22_Witness ==
    /\ args.type = "cube"
    /\ OutputFormat = "Colour24"
    /\ Encoded("xp.png")
    /\ files["xp.png"].width = 2 /\ files["xp.png"].height = 2
    /\ Len(files["xp.png"].bytes) = 12
    /\ Len(dest_buffer["XP"]) = 4
    /\ dest_buffer["XP"] # files["xp.png"].bytes
C22_WitnessRect ==
    /\ args.type = "rect"
    /\ OutputFormat = "Greyscale16"
    /\ Encoded("lat_lon.png")
    /\ files["lat_lon.png"].width = 2 /\ files["lat_lon.png"].height = 1
    /\ Len(files["lat_lon.png"].bytes) = 4
    /\ Len(dest_buffer["main"]) = 2

\* C23: for every finite elevation, also below -1 and above 1, and every
\* format, the quantized integer (the pixel's bytes read big-endian) lies in
\* [0, max] with max = 255, 65535 or 16777215; every elevation <= -1 gives 0
\* and every elevation >= 1 gives max, and every byte written is in 0..255.
MaxOf(output_format) ==
    CASE output_format = "Greyscale8" -> 255
      [] output_format = "Greyscale16" -> 65535
      [] output_format = "Colour24" -> 16777215
RECURSIVE BigEndian(_)
BigEndian(bytes) ==
    IF bytes = <<>> THEN 0
    ELSE 256 * BigEndian(SubSeq(bytes, 1, Len(bytes) - 1)) + bytes[Len(bytes)]
QuantizedAt(i) ==
    LET c == ChannelBytes(q_format)
    IN  BigEndian(SubSeq(q_img, (i - 1) * c + 1, i * c))
C23_Saturates ==
    q_pc = "done" =>
        /\ Len(q_img) = Len(q_data) * ChannelBytes(q_format)
        /\ \A j \in 1..Len(q_img) : q_img[j] \in 0..255
        /\ \A i \in 1..Len(q_data) : ~IsNaN(q_data[i]) =>
              /\ QuantizedAt(i) \in 0..MaxOf(q_format)
              /\ q_data[i] <= -ElevDen => QuantizedAt(i) = 0
              /\ q_data[i] >= ElevDen => QuantizedAt(i) = MaxOf(q_format)

\* Elevations of -2 and +2 are written in colour-24 as 00 00 00 and FF FF FF.
C23_Witness ==
    /\ q_pc = "done"
    /\ q_format = "Colour24"
    /\ q_data = <<-2 * ElevDen, 2 * ElevDen>>
    /\ q_img = <<0, 0, 0, 255, 255, 255>>

\* C24: for every seed the command line accepts, create_generator computes
\* each of its seeds seed + k (33 offsets k from 0 to 140) without overflow of
\* i32: the call does not panic, and every seed given to a module is the
\* global seed or greater, one per offset.
C24_NoSeedOverflow ==
    /\ t_pc # "panicked"
    /\ t_pc \in {"loop", "done"} =>
          /\ Cardinality(t_seeds) = Cardinality(SeedOffsets)
          /\ \A sd \in t_seeds : sd >= t_seed

\* C25: for every cube face of size >= 1 and every a, b in [0, size),
\* coord_to_pos is called with max_coord = size - 1 >= 1, so that it does
\* not divide by zero, and the point it returns has a coordinate equal to +1
\* or -1, hence a magnitude of 1 or more for the normalization to divide by.
SquaredMagnitude(pos) == pos[1] * pos[1] + pos[2] * pos[2] + pos[3] * pos[3]
C25_NoZeroDivision ==
    (CubeTile /\ t_width >= 1) =>
        \A i \in 1..Len(t_log) :
            LET pos == t_log[i].pos
            IN  /\ pos[4] = t_width - 1
                /\ pos[4] >= 1
                /\ \E j \in 1..3 : Abs(pos[j]) = pos[4]
                /\ SquaredMagnitude(pos) >= pos[4] * pos[4]

\* C26: the six faces are seamless.  For max_coord m >= 1 the points that
\* coord_to_pos produces over the six faces and all (a, b) in [0, m]^2 are
\* exactly the lattice points of the cube's surface; a face's loops produce
\* every lattice point of its own side and no other; and a point of a face
\* that lies on the side of another face (an edge or a corner) is produced
\* by that face too, with identical coordinates.
Lattice(m) == {2 * i - m : i \in 0..m}
SurfacePoints(m) ==
    {p \in Lattice(m) \X Lattice(m) \X Lattice(m) \X {m} : \E c \in 1..3 : Abs(p[c]) = m}
OnSide(p, plane) == p[HeldAxis[plane]] = HeldSign[plane] * p[4]
FacePoints(plane, m) == {coord_to_pos(plane, a, b, m) : a \in 0..m, b \in 0..m}
LoggedPoints == {t_log[i].pos : i \in 1..Len(t_log)}
C26_SeamlessFaces ==
    (CubeTile /\ t_width >= 2) =>
        LET m == t_width - 1
        IN  /\ UNION {FacePoints(plane, m) : plane \in PlaneSet} = SurfacePoints(m)
            /\ LoggedPoints \subseteq FacePoints(t_plane, m)
            /\ t_pc = "done" =>
                  /\ LoggedPoints = {p \in SurfacePoints(m) : OnSide(p, t_plane)}
                  /\ \A plane \in PlaneSet, p \in LoggedPoints :
                        OnSide(p, plane) => p \in FacePoints(plane, m)

\* The loops of the ZN face of size 3 have run out: nine points, among them
\* the three of the edge it shares with the XP face.
C26_Witness ==
    /\ CubeTile
    /\ t_pc = "done"
    /\ t_plane = "ZN"
    /\ t_width = 3
    /\ Cardinality(LoggedPoints) = 9
    /\ Cardinality({p \in LoggedPoints : OnSide(p, "XP")}) = 3
    /\ Cardinality(SurfacePoints(2)) = 26

\* C27: for every width >= 0 in rect mode (height = width / 2) and every
\* size >= 0 in cube mode, every buffer index used lies inside the buffer,
\* no unsigned subtraction (size - 1, rows - 1 - b, max_coord - a)
\* underflows, each cell is written once at most and, when the loops have
\* run out, exactly once; for width 0 or 1 in rect mode and size 0 in cube
\* mode the loops run zero times.
CellOf(e) == (t_height - 1 - e.b) * t_width + e.a + 1
C27_LoopsInBounds ==
    /\ t_pc # "out_of_range"
    /\ t_pc \in {"loop", "done"} =>
          /\ \A i \in 1..Len(t_log) :
                LET e == t_log[i]
                IN  /\ t_width - 1 >= 0
                    /\ t_height - 1 - e.b >= 0
                    /\ (t_width - 1) - e.a >= 0
                    /\ CellOf(e) \in 1..Len(t_buf)
                    /\ \A j \in 1..Len(t_log) : i # j => CellOf(e) # CellOf(t_log[j])
          /\ t_pc = "done" => {CellOf(t_log[i]) : i \in 1..Len(t_log)} = 1..Len(t_buf)
          /\ (t_width = 0 \/ (t_mode = "rect" /\ t_width = 1)) =>
                t_log = <<>> /\ t_buf = <<>>

\* C28: Cache modules are transparent.  Every value the root has returned
\* is the value the graph denotes at the query point with nothing
\* remembered; the pair stored in a cache is (q, source(q)) for the point q
\* of its last miss; and every value returned inside a call in progress is
\* the one its module denotes at the point it was queried at.
Denoted(nm, p) == g_vals[nm][p + 1]
C28_CachesTransparent ==
    g_pc \in {"built", "querying"} =>
        /\ \A i \in 1..Len(g_results) :
              g_results[i][2] = Denoted(Root, g_results[i][1])
        /\ \A c \in CacheNames :
              g_cache[c].valid => g_cache[c].v = Denoted(Node[c].ins[1], g_cache[c].p)
        /\ \A d \in 1..Len(g_stack) :
              LET n == Node[g_stack[d].nm]
              IN  \A j \in 1..Len(g_stack[d].vs) :
                     g_stack[d].vs[j] = Denoted(n.ins[j], InputPoint(n, g_stack[d].p))

\* Two calls at different points have returned, the second answered in part
\* from a cache, and the two values differ.
C28_Witness ==
    /\ g_pc = "built"
    /\ Len(g_results) >= 2
    /\ g_results[1][1] # g_results[2][1]
    /\ g_results[1][2] # g_results[2][2]
    /\ \E c \in CacheNames : \E k \in 1..Len(g_log[c]) : g_log[c][k].hit

\* C29: every select module built by create_generator has lower bound <
\* upper bound and an edge falloff that is non-negative and at most half of
\* (upper - lower), so that the falloff bands around its two bounds do not
\* overlap.
BandsDisjoint(n) ==
    n.kind = "Select" => n.a < n.b /\ n.c >= 0 /\ 2 * n.c <= n.b - n.a
BandsDisjointIn ==
    [g \in 0..Len(Subgroups) |-> \A i \in 1..ModulesIn[g] : BandsDisjoint(Nodes[i])]
C29_SelectBandsDisjoint ==
    g_pc \in {"building", "built", "querying"} => BandsDisjointIn[g_built]

\* C30: every subgroup cache of create_generator (25 with the root) is
\* reachable from the returned root along input edges, as is every other
\* module: no subgroup is built and then left unused.  A call in progress
\* only ever visits such modules.
\* The modules reached from those of seen (a sequence of names) among
\* Nodes[lo..hi], taken from the last to the first: a module's consumers all
\* come after it.
RECURSIVE ReachedFrom(_, _, _)
ReachedFrom(lo, hi, seen) ==
    IF lo = hi
    THEN IF \E k \in 1..Len(seen) : seen[k] = Nodes[lo].name
         THEN seen \o Nodes[lo].ins
         ELSE seen
    ELSE LET mid == (lo + hi) \div 2
             later == ReachedFrom(mid + 1, hi, seen)
         IN  IF Len(later) > 0 THEN ReachedFrom(lo, mid, later) ELSE later
Reachable ==
    LET seen == ReachedFrom(1, Len(Nodes), <<Root>>)
    IN  {seen[k] : k \in 1..Len(seen)}
C30_SubgroupsReachable ==
    g_pc \in {"building", "built", "querying"} =>
        /\ Cardinality(CacheNames) = 25
        /\ CacheNames \subseteq Reachable
        /\ NodeNames \subseteq Reachable
        /\ DOMAIN g_cache \subseteq Reachable
        /\ \A d \in 1..Len(g_stack) : g_stack[d].nm \in Reachable

\* The first call on the root has returned: every one of the 25 caches has
\* been asked and holds a pair.
C30_Witness ==
    /\ g_pc = "built"
    /\ Len(g_results) = 1
    /\ DOMAIN g_cache = CacheNames
    /\ \A c \in CacheNames : g_cache[c].valid /\ c \in Reachable

=============================================================================
